---------------------------- MODULE Spec2Model ----------------------------
(***************************************************************************)
(* Model of the documentation site's search pipeline:                      *)
(*   - the Index Builder (scripts/build-search-index.js),                   *)
(*   - expandEntries and the SearchBar component (components/SearchBar),    *)
(*   - the SearchDialog that hosts a SearchBar,                             *)
(*   - the table of contents and the rendered page (lib/content),           *)
(*   - the revalidation webhook (app/api/revalidate/route.ts).              *)
(* Strings are TLA+ strings, taken apart with Len/SubSeq/Head/Tail.         *)
(***************************************************************************)
EXTENDS Integers, Sequences, FiniteSets, TLC

VARIABLES
    \* ---- one content file through the builder's three extractors, and then
    \* ---- through getDocBySlug, which renders its page
    frontMatter,     \* the text between the two --- lines of the source getDocBySlug
                     \* has read, "" when there is none
    markdown,        \* the mdast root's children of the file's body
    docPc,           \* "parsed" | "text" | "questions" | "sections" | "headings" | "rendered"
    docBody,         \* result of markdownToText
    docQuestions,    \* result of extractQuestions
    docSections,     \* result of extractSections
    tocHeadings,     \* result of extractHeadings: the table of contents
    pageIds,         \* the id of every heading of the rendered page, in document order
    \* ---- the Index Builder (buildIndex)
    dir,             \* the content directory: its files in listing order
    bpc,             \* "readdir" | "loop" | "write" | "done" | "failed"
    files,           \* the files the for-loop has still to process
    docs,            \* the records pushed so far (sorted once the loop is over)
    outputFile,      \* public/search_index.json
    logged,          \* what the build wrote to the console
    exitCode,        \* process exit code, -1 while running
    \* ---- expandEntries on its own
    inDocs,          \* the argument
    expanded,        \* the value returned
    \* ---- SearchDialog and the SearchBar
    hosted,          \* TRUE: the SearchBar of the SearchDialog; FALSE: the home page's
    open,            \* SearchDialog's state
    mounted,         \* a SearchBar instance is mounted
    served,          \* what /search_index.json holds
    fetchOutcome,    \* "pending" | "ok" | "notok" | "rejected"
    loadPc,          \* where loadIndex is: "fetch" | "json" | "import" | "done" | "returned" | "caught"
    fuseRef,         \* fuseRef.current
    query,           \* useState('')
    results,         \* useState([]): the items of the FuseResults
    loading,         \* useState(false)
    timers,          \* pending window.setTimeout callbacks, each with the query it closed over
    \* ---- what an observer of the SearchBar has seen
    searched,        \* every query the index's search was called with
    burstCalls,      \* search calls since the burst of query changes began
    cancelledPending, \* the latest change, click or unmount cancelled a pending timer
    lastInputLoaded, \* the index was loaded when the query last changed
    onResultSelectCalls, \* calls of the onResultSelect prop
    lastEvent,       \* the latest event handled
    \* ---- the revalidation webhook (POST /api/revalidate)
    envSecret,       \* process.env.REVALIDATE_SECRET
    request,         \* the POST: its x-revalidate-secret header and its body
    apc,             \* "received" | "authorized" | "revalidating" | "responded"
    pathsToRevalidate, \* the paths computed from body.slugs
    pendingPaths,    \* the paths forEach has still to visit
    revalidatedPaths, \* every path revalidatePath was called on
    response,        \* the response sent
    \* ---- the shared highlighter (lib/shiki)
    shikiHighlighter, \* globalThis.__shikiHighlighter: 0 (unset) or an instance
    shikiPromise,    \* globalThis.__shikiPromise: 0 (unset) or a createHighlighter call
    creations,       \* the createHighlighter calls made: "pending" | "fulfilled" | "rejected"
    callers,          \* the highlightCode calls: where each is, what it awaits, what it got
    \* ---- a request for /docs/[slug] (getDocBySlug under DocPage or generateMetadata)
    contentDir,      \* the names of the files that exist in content/docs
    pageCall,        \* [caller, slug]
    gpc,             \* "idle" | "find" | "probe" | "done"
    filename,        \* the constant of lines 76-83, never read
    extIndex,        \* the position of the probe loop in SUPPORTED_EXTENSIONS
    resolvedFilename, \* "" for null
    pageOutcome,     \* what the caller produced
    \* ---- getAllDocsMeta
    listing,         \* what readdir returns
    mpc,             \* "idle" | "readdir" | "loop" | "done" | "failed"
    filenames,       \* the files the loop has still to read
    metas,           \* the metas pushed so far (sorted once returned)
    metaError        \* the message of the error thrown, "" if none

docVars == <<frontMatter, markdown, docPc, docBody, docQuestions, docSections, tocHeadings, pageIds>>
buildVars == <<dir, bpc, files, docs, outputFile, logged, exitCode>>
expandVars == <<inDocs, expanded>>
barVars == <<fuseRef, query, results, loading, timers>>
loadVars == <<fetchOutcome, loadPc>>
seenVars == <<searched, burstCalls, cancelledPending, lastInputLoaded, onResultSelectCalls, lastEvent>>
uiVars == <<hosted, open, mounted, served, loadVars, barVars, seenVars>>

apiVars == <<envSecret, request, apc, pathsToRevalidate, pendingPaths, revalidatedPaths, response>>

shikiVars == <<shikiHighlighter, shikiPromise, creations, callers>>

pageVars == <<contentDir, pageCall, gpc, filename, extIndex, resolvedFilename, pageOutcome>>

metaVars == <<listing, mpc, filenames, metas, metaError>>

siteVars == <<shikiVars, pageVars, metaVars>>

vars == <<docVars, buildVars, expandVars, uiVars, apiVars, siteVars>>

-----------------------------------------------------------------------------
(* Bounds of the model *)

MaxNodes == 3
MaxFiles == 2
MaxDocs == 2
MaxPending == 2
MaxSelects == 2
MaxSlugs == 2
MaxCallers == 3

-----------------------------------------------------------------------------
(* Strings *)

UpperChars == "ABCDEFGHIJKLMNOPQRSTUVWXYZ"
LowerChars == "abcdefghijklmnopqrstuvwxyz"
DigitChars == "0123456789"

CharAt(s, i) == SubSeq(s, i, i)

\* position of the one-character string c in s, 0 when absent
RECURSIVE IndexOfFrom(_, _, _)
IndexOfFrom(s, c, i) ==
    IF i > Len(s) THEN 0
    ELSE IF CharAt(s, i) = c THEN i
    ELSE IndexOfFrom(s, c, i + 1)

IndexOf(s, c) == IndexOfFrom(s, c, 1)

\* JS whitespace (\s) among the characters the model uses
IsSpace(c) == c \in {" ", "\t", "\n"}

RECURSIVE TrimStart(_)
TrimStart(s) ==
    IF s = "" THEN ""
    ELSE IF IsSpace(Head(s)) THEN TrimStart(Tail(s))
    ELSE s

RECURSIVE TrimEnd(_)
TrimEnd(s) ==
    IF s = "" THEN ""
    ELSE IF IsSpace(CharAt(s, Len(s))) THEN TrimEnd(SubSeq(s, 1, Len(s) - 1))
    ELSE s

\* String.prototype.trim
Trim(s) == TrimEnd(TrimStart(s))

ToLowerChar(c) ==
    LET i == IndexOf(UpperChars, c)
    IN  IF i = 0 THEN c ELSE CharAt(LowerChars, i)

\* String.prototype.toLowerCase
RECURSIVE ToLowerCase(_)
ToLowerCase(s) ==
    IF s = "" THEN "" ELSE ToLowerChar(Head(s)) \o ToLowerCase(Tail(s))

\* String.prototype.endsWith
EndsWith(s, suffix) ==
    /\ Len(s) >= Len(suffix)
    /\ SubSeq(s, Len(s) - Len(suffix) + 1, Len(s)) = suffix

\* String.prototype.startsWith
StartsWith(s, prefix) ==
    /\ Len(s) >= Len(prefix)
    /\ SubSeq(s, 1, Len(prefix)) = prefix

\* String.prototype.includes
Includes(s, part) ==
    \E i \in 1..(Len(s) - Len(part) + 1) : SubSeq(s, i, i + Len(part) - 1) = part

\* String(n) for a natural number
RECURSIVE NatToString(_)
NatToString(n) ==
    IF n < 10 THEN CharAt(DigitChars, n + 1)
    ELSE NatToString(n \div 10) \o CharAt(DigitChars, (n % 10) + 1)

\* Array.prototype.join
RECURSIVE Join(_, _)
Join(strs, sep) ==
    IF strs = <<>> THEN ""
    ELSE IF Len(strs) = 1 THEN strs[1]
    ELSE strs[1] \o sep \o Join(Tail(strs), sep)

\* s.replace(/\s+/g, ' ')
RECURSIVE CollapseSpaces(_)
CollapseSpaces(s) ==
    IF s = "" THEN ""
    ELSE IF IsSpace(Head(s)) THEN " " \o CollapseSpaces(TrimStart(s))
    ELSE Head(s) \o CollapseSpaces(Tail(s))

-----------------------------------------------------------------------------
(* github-slugger *)

\* the characters github-slugger's regex leaves in place (ASCII): letters,
\* digits, '-', '_' and the space; everything else is deleted
SlugKeeps(c) ==
    \/ IndexOf(LowerChars, c) > 0
    \/ IndexOf(UpperChars, c) > 0
    \/ IndexOf(DigitChars, c) > 0
    \/ c \in {"-", "_", " "}

RECURSIVE SlugStrip(_)
SlugStrip(s) ==
    IF s = "" THEN ""
    ELSE (IF SlugKeeps(Head(s)) THEN Head(s) ELSE "") \o SlugStrip(Tail(s))

RECURSIVE SpacesToHyphens(_)
SpacesToHyphens(s) ==
    IF s = "" THEN ""
    ELSE (IF Head(s) = " " THEN "-" ELSE Head(s)) \o SpacesToHyphens(Tail(s))

\* slug(value): value.toLowerCase().replace(regex, '').replace(/ /g, '-')
PlainSlug(value) == SpacesToHyphens(SlugStrip(ToLowerCase(value)))

\* a fresh GithubSlugger: no occurrences
NewSlugger == [k \in {} |-> 0]

\* the while loop of GithubSlugger.slug: bump the original's counter until the
\* result is unused
RECURSIVE SluggerLoop(_, _, _)
SluggerLoop(occ, original, result) ==
    IF result \in DOMAIN occ
    THEN LET occ2 == [occ EXCEPT ![original] = @ + 1]
         IN  SluggerLoop(occ2, original, original \o "-" \o NatToString(occ2[original]))
    ELSE [occ |-> (result :> 0) @@ occ, id |-> result]

\* GithubSlugger.prototype.slug(value): [occ |-> the new occurrences, id |-> the slug]
SluggerSlug(occ, value) == SluggerLoop(occ, PlainSlug(value), PlainSlug(value))

-----------------------------------------------------------------------------
(* mdast: the nodes remark-parse produces *)

Text(v) == [kind |-> "text", value |-> v]
InlineCode(v) == [kind |-> "inlineCode", value |-> v]

Heading(d, inl) == [type |-> "heading", depth |-> d, inl |-> inl, children |-> <<>>]
Paragraph(inl) == [type |-> "paragraph", depth |-> 0, inl |-> inl, children |-> <<>>]
Blockquote(ch) == [type |-> "blockquote", depth |-> 0, inl |-> <<>>, children |-> ch]

RECURSIVE InlineToString(_)
InlineToString(inl) ==
    IF inl = <<>> THEN "" ELSE Head(inl).value \o InlineToString(Tail(inl))

\* mdast-util-to-string: the text of every descendant, concatenated
RECURSIVE MdToString(_)
RECURSIVE AllToString(_)
MdToString(node) == InlineToString(node.inl) \o AllToString(node.children)
AllToString(nodes) ==
    IF nodes = <<>> THEN "" ELSE MdToString(Head(nodes)) \o AllToString(Tail(nodes))

\* unist-util-visit(tree, 'paragraph', ...): every paragraph of the tree, at any
\* depth, in document (preorder) order
RECURSIVE VisitParagraphs(_)
VisitParagraphs(nodes) ==
    IF nodes = <<>> THEN <<>>
    ELSE (IF Head(nodes).type = "paragraph" THEN <<Head(nodes)>>
          ELSE VisitParagraphs(Head(nodes).children))
         \o VisitParagraphs(Tail(nodes))

\* unist-util-visit(tree, 'heading', ...): every heading of the tree, at any
\* depth, in document (preorder) order
RECURSIVE VisitHeadings(_)
VisitHeadings(nodes) ==
    IF nodes = <<>> THEN <<>>
    ELSE (IF Head(nodes).type = "heading" THEN <<Head(nodes)>>
          ELSE VisitHeadings(Head(nodes).children))
         \o VisitHeadings(Tail(nodes))

-----------------------------------------------------------------------------
(* The Index Builder's extractors (scripts/build-search-index.js) *)

MaxSectionDepth == 4
MaxSectionParagraphs == 3

\* the lookahead loop as it would be without the break at a heading of depth
\* <= node.depth
RECURSIVE SectionParagraphsPastHeading(_, _, _, _)
SectionParagraphsPastHeading(children, node, lookahead, paragraphs) ==
    IF lookahead > Len(children) THEN paragraphs
    ELSE LET sibling == children[lookahead]
             text == Trim(MdToString(sibling))
             collected == IF sibling.type = "paragraph" /\ text # ""
                          THEN Append(paragraphs, text)
                          ELSE paragraphs
         IN  IF Len(collected) >= MaxSectionParagraphs
             THEN collected
             ELSE SectionParagraphsPastHeading(children, node, lookahead + 1, collected)

\* the lookahead loop of extractSections: the texts of the paragraphs that
\* follow the heading `node`, from children[lookahead] on
RECURSIVE SectionParagraphs(_, _, _, _)
SectionParagraphs(children, node, lookahead, paragraphs) ==
    IF lookahead > Len(children) THEN paragraphs
    ELSE LET sibling == children[lookahead]
             text == Trim(MdToString(sibling))
             collected == IF sibling.type = "paragraph" /\ text # ""
                          THEN Append(paragraphs, text)
                          ELSE paragraphs
         IN  IF sibling.type = "heading" /\ sibling.depth <= node.depth
             THEN paragraphs
             ELSE IF Len(collected) >= MaxSectionParagraphs
             THEN collected
             ELSE SectionParagraphs(children, node, lookahead + 1, collected)

\* extractSections as it would be with `new GithubSlugger()` inside the loop
RECURSIVE SectionsFromFreshSlugger(_, _, _, _)
SectionsFromFreshSlugger(children, index, occ, sections) ==
    IF index > Len(children) THEN sections
    ELSE LET node == children[index]
             title == Trim(MdToString(node))
             slugged == SluggerSlug(NewSlugger, title)
         IN  IF node.type = "heading" /\ node.depth <= MaxSectionDepth /\ title # ""
             THEN SectionsFromFreshSlugger(children, index + 1, slugged.occ,
                      Append(sections,
                          [id |-> slugged.id,
                           title |-> title,
                           depth |-> node.depth,
                           content |-> Join(SectionParagraphs(children, node, index + 1, <<>>), " ")]))
             ELSE SectionsFromFreshSlugger(children, index + 1, occ, sections)

\* extractSections as it would be without `if (!title) continue;`
RECURSIVE SectionsFromKeepsEmptyTitles(_, _, _, _)
SectionsFromKeepsEmptyTitles(children, index, occ, sections) ==
    IF index > Len(children) THEN sections
    ELSE LET node == children[index]
             title == Trim(MdToString(node))
             slugged == SluggerSlug(occ, title)
         IN  IF node.type = "heading" /\ node.depth <= MaxSectionDepth
             THEN SectionsFromKeepsEmptyTitles(children, index + 1, slugged.occ,
                      Append(sections,
                          [id |-> slugged.id,
                           title |-> title,
                           depth |-> node.depth,
                           content |-> Join(SectionParagraphs(children, node, index + 1, <<>>), " ")]))
             ELSE SectionsFromKeepsEmptyTitles(children, index + 1, occ, sections)

\* the outer loop of extractSections from children[index] on, with the
\* slugger's occurrences and the sections pushed so far
RECURSIVE SectionsFrom(_, _, _, _)
SectionsFrom(children, index, occ, sections) ==
    IF index > Len(children) THEN sections
    ELSE LET node == children[index]
             title == Trim(MdToString(node))
             slugged == SluggerSlug(occ, title)
         IN  IF node.type = "heading" /\ node.depth <= MaxSectionDepth /\ title # ""
             THEN SectionsFrom(children, index + 1, slugged.occ,
                      Append(sections,
                          [id |-> slugged.id,
                           title |-> title,
                           depth |-> node.depth,
                           content |-> Join(SectionParagraphs(children, node, index + 1, <<>>), " ")]))
             ELSE SectionsFrom(children, index + 1, occ, sections)

\* extractSections(markdown), on the parsed tree's children
extractSections(children) == SectionsFrom(children, 1, NewSlugger, <<>>)

RECURSIVE TextLines(_)
TextLines(paragraphs) ==
    IF paragraphs = <<>> THEN <<>>
    ELSE LET paragraph == Trim(CollapseSpaces(MdToString(Head(paragraphs))))
         IN  (IF paragraph # "" THEN <<paragraph>> ELSE <<>>) \o TextLines(Tail(paragraphs))

\* markdownToText(markdown)
markdownToText(children) == Join(TextLines(VisitParagraphs(children)), "\n")

\* the questions as they would be if they were taken from the lines of body
QuestionTextsCollapsed(paragraphs) ==
    SelectSeq(TextLines(paragraphs), LAMBDA line : EndsWith(line, "?"))

RECURSIVE QuestionTexts(_)
QuestionTexts(paragraphs) ==
    IF paragraphs = <<>> THEN <<>>
    ELSE LET text == Trim(MdToString(Head(paragraphs)))
         IN  (IF EndsWith(text, "?") THEN <<text>> ELSE <<>>) \o QuestionTexts(Tail(paragraphs))

\* extractQuestions(markdown)
extractQuestions(children) == QuestionTexts(VisitParagraphs(children))

-----------------------------------------------------------------------------
(* The content library's table of contents and the rendered page (lib/content) *)

ThematicBreak == [type |-> "thematicBreak", depth |-> 0, inl |-> <<>>, children |-> <<>>]

\* unified().use(remarkParse).parse(source) on the whole file: without a front
\* matter plugin the opening --- is a thematic break and the lines up to the
\* closing --- are a setext heading of depth 2
SourceNodes(fm, children) ==
    IF fm = "" THEN children
    ELSE <<ThematicBreak, Heading(2, <<Text(fm)>>)>> \o children

\* visit(node, 'text', ...): the values of the heading's text nodes only
RECURSIVE TextNodesToString(_)
TextNodesToString(inl) ==
    IF inl = <<>> THEN ""
    ELSE (IF Head(inl).kind = "text" THEN Head(inl).value ELSE "")
         \o TextNodesToString(Tail(inl))

\* the visitor of extractHeadings over the headings of the tree, with the
\* slugger's occurrences and the entries pushed so far
RECURSIVE HeadingsFrom(_, _, _)
HeadingsFrom(nodes, occ, headings) ==
    IF nodes = <<>> THEN headings
    ELSE LET node == Head(nodes)
             text == TextNodesToString(node.inl)
             slugged == SluggerSlug(occ, text)
         IN  IF node.depth < 2 \/ node.depth > 3 \/ Len(Trim(text)) = 0
             THEN HeadingsFrom(Tail(nodes), occ, headings)
             ELSE HeadingsFrom(Tail(nodes), slugged.occ,
                      Append(headings, [id |-> slugged.id, text |-> text, depth |-> node.depth]))

\* extractHeadings(source)
extractHeadings(fm, children) ==
    HeadingsFrom(VisitHeadings(SourceNodes(fm, children)), NewSlugger, <<>>)

\* rehype-slug: one slugger over every h1..h6 of the page, each given the slug
\* of its text content
RECURSIVE RehypeSlugFrom(_, _, _)
RehypeSlugFrom(nodes, occ, ids) ==
    IF nodes = <<>> THEN ids
    ELSE LET slugged == SluggerSlug(occ, MdToString(Head(nodes)))
         IN  RehypeSlugFrom(Tail(nodes), slugged.occ, Append(ids, slugged.id))

\* the ids of the headings of the page compileMDX renders from the body
rehypeSlug(children) == RehypeSlugFrom(VisitHeadings(children), NewSlugger, <<>>)

-----------------------------------------------------------------------------
(* Documents the extractors are run on *)

HeadingNodes ==
    { Heading(1, <<Text("Q")>>),
      Heading(2, <<Text("Q")>>),
      Heading(2, <<Text("Q "), InlineCode("1")>>),
      Heading(2, <<Text("?!")>>),
      Heading(2, <<>>),
      Heading(5, <<Text("Q")>>) }

ParagraphNodes ==
    { Paragraph(<<Text("p")>>),
      Paragraph(<<Text("w\nx?")>>),
      Paragraph(<<>>) }

OtherNodes ==
    { Blockquote(<<Paragraph(<<Text("n?")>>)>>),
      Blockquote(<<Heading(2, <<Text("Q")>>)>>) }

NodeSet == HeadingNodes \cup ParagraphNodes \cup OtherNodes

\* longer documents, of fewer kinds of node: a heading followed by more than
\* MaxSectionParagraphs paragraphs needs more than MaxNodes nodes
LongNodeSet ==
    { Heading(2, <<Text("Q")>>),
      Heading(5, <<Text("Q")>>),
      Paragraph(<<Text("p")>>),
      Paragraph(<<Text("w\nx?")>>) }

Documents ==
    UNION ({ [1..n -> NodeSet] : n \in 0..MaxNodes }
           \cup { [1..n -> LongNodeSet] : n \in (MaxNodes + 1)..(MaxNodes + 2) })

NoResult == <<"not computed">>

\* the front matter blocks of the model's files: none, or title and order
FrontMatterBlocks == {"", "title: a\norder: 1"}

DocIdle ==
    /\ frontMatter = ""
    /\ markdown = <<>>
    /\ docPc = "idle"
    /\ docBody = NoResult
    /\ docQuestions = NoResult
    /\ docSections = NoResult
    /\ tocHeadings = NoResult
    /\ pageIds = NoResult

DocInit ==
    /\ frontMatter = ""
    /\ markdown \in Documents
    /\ docPc = "parsed"
    /\ docBody = NoResult
    /\ docQuestions = NoResult
    /\ docSections = NoResult
    /\ tocHeadings = NoResult
    /\ pageIds = NoResult

\* buildIndex: const body = await markdownToText(content)
MarkdownToText ==
    /\ docPc = "parsed"
    /\ docBody' = markdownToText(markdown)
    /\ docPc' = "text"
    /\ UNCHANGED <<frontMatter, markdown, docQuestions, docSections, tocHeadings, pageIds>>
    /\ UNCHANGED <<buildVars, expandVars, uiVars, apiVars, siteVars>>

\* buildIndex: const questions = await extractQuestions(content)
ExtractQuestions ==
    /\ docPc = "text"
    /\ docQuestions' = extractQuestions(markdown)
    /\ docPc' = "questions"
    /\ UNCHANGED <<frontMatter, markdown, docBody, docSections, tocHeadings, pageIds>>
    /\ UNCHANGED <<buildVars, expandVars, uiVars, apiVars, siteVars>>

\* buildIndex: const sections = extractSections(content)
ExtractSections ==
    /\ docPc = "questions"
    /\ docSections' = extractSections(markdown)
    /\ docPc' = "sections"
    /\ UNCHANGED <<frontMatter, markdown, docBody, docQuestions, tocHeadings, pageIds>>
    /\ UNCHANGED <<buildVars, expandVars, uiVars, apiVars, siteVars>>

\* getDocBySlug, for the page of the file the index was built from:
\* const source = await fs.readFile(fullPath, 'utf8');
\* const headings = extractHeadings(source)
ExtractHeadings ==
    /\ docPc = "sections"
    /\ \E fm \in FrontMatterBlocks :
         /\ frontMatter' = fm
         /\ tocHeadings' = extractHeadings(fm, markdown)
    /\ docPc' = "headings"
    /\ UNCHANGED <<markdown, docBody, docQuestions, docSections, pageIds>>
    /\ UNCHANGED <<buildVars, expandVars, uiVars, apiVars, siteVars>>

\* getDocBySlug: compileMDX({ source, ... rehypePlugins: [rehypeSlug, ...] })
CompileMDX ==
    /\ docPc = "headings"
    /\ pageIds' = rehypeSlug(markdown)
    /\ docPc' = "rendered"
    /\ UNCHANGED <<frontMatter, markdown, docBody, docQuestions, docSections, tocHeadings>>
    /\ UNCHANGED <<buildVars, expandVars, uiVars, apiVars, siteVars>>

DocNext ==
    \/ MarkdownToText
    \/ ExtractQuestions
    \/ ExtractSections
    \/ ExtractHeadings
    \/ CompileMDX

-----------------------------------------------------------------------------
(* JavaScript values of the front matter (gray-matter's data) *)

Undefined == [t |-> "undefined", v |-> ""]
Null == [t |-> "null", v |-> ""]
Str(s) == [t |-> "string", v |-> s]
Num(n) == [t |-> "number", v |-> n]
Arr(a) == [t |-> "array", v |-> a]

DefaultOrder == 999

\* x ?? y takes y when x is null or undefined
Nullish(x) == x.t \in {"undefined", "null"}

-----------------------------------------------------------------------------
(* String.prototype.localeCompare under the default (root) collation: the
   strings are compared by their letters regardless of case first (spaces and
   punctuation before digits before letters), and only when that says equal
   by case, lower case first *)

NonLetterOrder == " _-,;:!?.0123456789"

PrimaryRank(c) ==
    LET i == IndexOf(LowerChars, ToLowerChar(c))
    IN  IF i > 0 THEN Len(NonLetterOrder) + i ELSE IndexOf(NonLetterOrder, c)

RECURSIVE ComparePrimary(_, _)
ComparePrimary(a, b) ==
    IF a = "" /\ b = "" THEN 0
    ELSE IF a = "" THEN -1
    ELSE IF b = "" THEN 1
    ELSE IF PrimaryRank(Head(a)) < PrimaryRank(Head(b)) THEN -1
    ELSE IF PrimaryRank(Head(a)) > PrimaryRank(Head(b)) THEN 1
    ELSE ComparePrimary(Tail(a), Tail(b))

RECURSIVE CompareCase(_, _)
CompareCase(a, b) ==
    IF a = "" \/ b = "" THEN 0
    ELSE IF Head(a) = Head(b) THEN CompareCase(Tail(a), Tail(b))
    ELSE IF IndexOf(LowerChars, Head(a)) > 0 THEN -1
    ELSE 1

LocaleCompare(a, b) ==
    IF ComparePrimary(a, b) # 0 THEN ComparePrimary(a, b) ELSE CompareCase(a, b)

-----------------------------------------------------------------------------
(* buildIndex *)

\* SUPPORTED_EXT.some((ext) => file.endsWith(ext))
IsSupported(file) == EndsWith(file, ".md") \/ EndsWith(file, ".mdx")

\* entries.filter(...), on the directory's files
RECURSIVE FilterSupported(_)
FilterSupported(entries) ==
    IF entries = <<>> THEN <<>>
    ELSE (IF IsSupported(Head(entries).name) THEN <<Head(entries)>> ELSE <<>>)
         \o FilterSupported(Tail(entries))

\* file.replace(/\.mdx?$/, '')
SlugOfFile(file) ==
    IF EndsWith(file, ".mdx") THEN SubSeq(file, 1, Len(file) - 4)
    ELSE IF EndsWith(file, ".md") THEN SubSeq(file, 1, Len(file) - 3)
    ELSE file

\* the record buildIndex would push if a missing order counted as 0
BuildRecordOrderZero(file) ==
    LET slug == SlugOfFile(file.name)
    IN  [slug |-> slug,
         title |-> IF Nullish(file.data.title) THEN slug ELSE file.data.title.v,
         summary |-> IF Nullish(file.data.summary) THEN "" ELSE file.data.summary.v,
         tags |-> IF file.data.tags.t = "array" THEN file.data.tags.v ELSE <<>>,
         order |-> IF file.data.order.t = "number" THEN file.data.order.v ELSE 0,
         body |-> markdownToText(file.children),
         questions |-> extractQuestions(file.children),
         sections |-> extractSections(file.children)]

\* the record buildIndex pushes for one file
BuildRecord(file) ==
    LET slug == SlugOfFile(file.name)
    IN  [slug |-> slug,
         title |-> IF Nullish(file.data.title) THEN slug ELSE file.data.title.v,
         summary |-> IF Nullish(file.data.summary) THEN "" ELSE file.data.summary.v,
         tags |-> IF file.data.tags.t = "array" THEN file.data.tags.v ELSE <<>>,
         order |-> IF file.data.order.t = "number" THEN file.data.order.v ELSE DefaultOrder,
         body |-> markdownToText(file.children),
         questions |-> extractQuestions(file.children),
         sections |-> extractSections(file.children)]

\* (a, b) => a.order - b.order || a.title.localeCompare(b.title)
CompareDocs(a, b) ==
    IF a.order - b.order # 0 THEN a.order - b.order ELSE LocaleCompare(a.title, b.title)

\* Array.prototype.sort is stable: d goes after the records it does not precede
RECURSIVE InsertSorted(_, _)
InsertSorted(sorted, d) ==
    IF sorted = <<>> THEN <<d>>
    ELSE IF CompareDocs(d, Head(sorted)) < 0 THEN <<d>> \o sorted
    ELSE <<Head(sorted)>> \o InsertSorted(Tail(sorted), d)

RECURSIVE SortDocsFrom(_, _)
SortDocsFrom(sorted, rest) ==
    IF rest = <<>> THEN sorted
    ELSE SortDocsFrom(InsertSorted(sorted, Head(rest)), Tail(rest))

\* docs.sort(...)
SortDocs(ds) == SortDocsFrom(<<>>, ds)

RECURSIVE BuildRecords(_)
BuildRecords(fs) ==
    IF fs = <<>> THEN <<>> ELSE <<BuildRecord(Head(fs))>> \o BuildRecords(Tail(fs))

\* what a build that meets no error writes for a directory
BuildOutput(directory) == SortDocs(BuildRecords(FilterSupported(directory)))

(* Content directories *)

FileNames == {"a.md", "a.mdx", "b.md", "c.txt"}

BodyQ == <<Heading(2, <<Text("Qa")>>), Paragraph(<<Text("p")>>)>>
BodyP == <<Heading(2, <<Text("?!")>>), Paragraph(<<Text("w\nx?")>>)>>
BodyN == BodyP \o <<Paragraph(<<Text("p")>>), Blockquote(<<Paragraph(<<Text("n?")>>)>>)>>

FrontMatter(title, order, summary, tags) ==
    [title |-> title, order |-> order, summary |-> summary, tags |-> tags]

FileContents ==
    { [data |-> FrontMatter(Str("a"), Num(1), Undefined, Undefined), children |-> BodyQ],
      [data |-> FrontMatter(Str("a"), Num(1), Undefined, Undefined), children |-> BodyP],
      [data |-> FrontMatter(Str("B"), Num(1), Undefined, Undefined), children |-> BodyQ],
      [data |-> FrontMatter(Str("a"), Num(2), Undefined, Str("t")), children |-> BodyQ],
      [data |-> FrontMatter(Undefined, Undefined, Undefined, Undefined), children |-> BodyQ],
      [data |-> FrontMatter(Null, Num(1), Null, Undefined), children |-> BodyQ],
      [data |-> FrontMatter(Str("B"), Str("1"), Str("s?"), Arr(<<"t">>)), children |-> BodyN] }

FileSet ==
    { [name |-> n, data |-> c.data, children |-> c.children] : n \in FileNames, c \in FileContents }

\* a directory lists each name once
Directories ==
    UNION { { d \in [1..n -> FileSet] : \A i, j \in 1..n : d[i].name = d[j].name => i = j }
            : n \in 0..MaxFiles }

\* public/search_index.json: absent, left by an earlier build, or what a
\* writeFile that failed half way leaves
NotWritten == [exists |-> FALSE, complete |-> FALSE, content |-> <<>>]
StaleIndex == [exists |-> TRUE, complete |-> TRUE, content |-> <<>>]
PartialFile == [exists |-> TRUE, complete |-> FALSE, content |-> <<>>]

BuildIdle ==
    /\ dir = <<>>
    /\ bpc = "idle"
    /\ files = <<>>
    /\ docs = <<>>
    /\ outputFile = NotWritten
    /\ logged = <<>>
    /\ exitCode = -1

BuildInit ==
    /\ dir \in Directories
    /\ bpc = "readdir"
    /\ files = <<>>
    /\ docs = <<>>
    /\ outputFile \in {NotWritten, StaleIndex}
    /\ logged = <<>>
    /\ exitCode = -1

\* the catch block: console.error(...); process.exit(1)
BuildAbort ==
    /\ logged' = Append(logged, "Failed to build search index")
    /\ exitCode' = 1
    /\ bpc' = "failed"
    /\ UNCHANGED <<dir, files, docs, outputFile>>
    /\ UNCHANGED <<docVars, expandVars, uiVars, apiVars, siteVars>>

\* const entries = await fsp.readdir(CONTENT_DIR); const files = entries.filter(...)
ReadDir ==
    /\ bpc = "readdir"
    /\ files' = FilterSupported(dir)
    /\ bpc' = "loop"
    /\ UNCHANGED <<dir, docs, outputFile, logged, exitCode>>
    /\ UNCHANGED <<docVars, expandVars, uiVars, apiVars, siteVars>>

\* fsp.readdir rejects
ReadDirFail ==
    /\ bpc = "readdir"
    /\ BuildAbort

\* one iteration of the for-loop: read, parse, push
ProcessFile ==
    /\ bpc = "loop"
    /\ files # <<>>
    /\ docs' = Append(docs, BuildRecord(Head(files)))
    /\ files' = Tail(files)
    /\ UNCHANGED <<dir, bpc, outputFile, logged, exitCode>>
    /\ UNCHANGED <<docVars, expandVars, uiVars, apiVars, siteVars>>

\* a failure in the loop as it would be if the catch block wrote the records
\* built so far
ProcessFileFailBestEffort ==
    /\ bpc = "loop"
    /\ files # <<>>
    /\ outputFile' = [exists |-> TRUE, complete |-> TRUE, content |-> docs]
    /\ logged' = Append(logged, "Failed to build search index")
    /\ exitCode' = 1
    /\ bpc' = "failed"
    /\ UNCHANGED <<dir, files, docs>>
    /\ UNCHANGED <<docVars, expandVars, uiVars, apiVars, siteVars>>

\* fsp.readFile rejects, or gray-matter or the parser throws
ProcessFileFail ==
    /\ bpc = "loop"
    /\ files # <<>>
    /\ BuildAbort

\* after the loop: docs.sort(...); await fsp.mkdir(..., { recursive: true })
SortAndMkdir ==
    /\ bpc = "loop"
    /\ files = <<>>
    /\ docs' = SortDocs(docs)
    /\ bpc' = "write"
    /\ UNCHANGED <<dir, files, outputFile, logged, exitCode>>
    /\ UNCHANGED <<docVars, expandVars, uiVars, apiVars, siteVars>>

\* fsp.mkdir rejects (the sort has been done)
MkdirFail ==
    /\ bpc = "loop"
    /\ files = <<>>
    /\ docs' = SortDocs(docs)
    /\ logged' = Append(logged, "Failed to build search index")
    /\ exitCode' = 1
    /\ bpc' = "failed"
    /\ UNCHANGED <<dir, files, outputFile>>
    /\ UNCHANGED <<docVars, expandVars, uiVars, apiVars, siteVars>>

\* await fsp.writeFile(OUTPUT_FILE, JSON.stringify(docs, null, 2)); console.log(...)
WriteFile ==
    /\ bpc = "write"
    /\ outputFile' = [exists |-> TRUE, complete |-> TRUE, content |-> docs]
    /\ logged' = Append(logged, "Search index generated")
    /\ exitCode' = 0
    /\ bpc' = "done"
    /\ UNCHANGED <<dir, files, docs>>
    /\ UNCHANGED <<docVars, expandVars, uiVars, apiVars, siteVars>>

\* fsp.writeFile rejects, before it opened the file or after it truncated it
WriteFileFail ==
    /\ bpc = "write"
    /\ outputFile' \in {outputFile, PartialFile}
    /\ logged' = Append(logged, "Failed to build search index")
    /\ exitCode' = 1
    /\ bpc' = "failed"
    /\ UNCHANGED <<dir, files, docs>>
    /\ UNCHANGED <<docVars, expandVars, uiVars, apiVars, siteVars>>

BuildNext ==
    \/ ReadDir
    \/ ReadDirFail
    \/ ProcessFile
    \/ ProcessFileFail
    \/ SortAndMkdir
    \/ MkdirFail
    \/ WriteFile
    \/ WriteFileFail

-----------------------------------------------------------------------------
(* expandEntries (components/SearchBar) *)

\* res.json(): a record of the index file as the client sees it; `sections`
\* is optional in SearchIndexDoc
FromJson(d) ==
    [slug |-> d.slug, title |-> d.title, summary |-> d.summary, tags |-> d.tags,
     body |-> d.body, questions |-> d.questions, sections |-> Arr(d.sections)]

RECURSIVE AllFromJson(_)
AllFromJson(ds) ==
    IF ds = <<>> THEN <<>> ELSE <<FromJson(Head(ds))>> \o AllFromJson(Tail(ds))

\* the entry pushed for the document itself
DocEntry(doc) ==
    [type |-> "doc", slug |-> doc.slug, title |-> doc.title, summary |-> doc.summary,
     tags |-> doc.tags, body |-> doc.body, questions |-> doc.questions,
     sectionId |-> Undefined, sectionTitle |-> Undefined, sectionContent |-> Undefined]

\* the entry pushed for one section of the document
SectionEntry(doc, section) ==
    [type |-> "section", slug |-> doc.slug, title |-> doc.title, summary |-> doc.summary,
     tags |-> doc.tags, body |-> doc.body, questions |-> doc.questions,
     sectionId |-> Str(section.id), sectionTitle |-> Str(section.title),
     sectionContent |-> Str(section.content)]

RECURSIVE SectionEntries(_, _)
SectionEntries(doc, sections) ==
    IF sections = <<>> THEN <<>>
    ELSE <<SectionEntry(doc, Head(sections))>> \o SectionEntries(doc, Tail(sections))

\* doc.sections?.forEach(...)
DocSectionEntries(doc) ==
    IF doc.sections.t = "array" THEN SectionEntries(doc, doc.sections.v) ELSE <<>>

\* expandEntries with the document's own entry pushed after its sections
RECURSIVE expandEntriesDocLast(_)
expandEntriesDocLast(ds) ==
    IF ds = <<>> THEN <<>>
    ELSE DocSectionEntries(Head(ds)) \o <<DocEntry(Head(ds))>> \o expandEntriesDocLast(Tail(ds))

\* expandEntries(docs)
RECURSIVE expandEntries(_)
expandEntries(ds) ==
    IF ds = <<>> THEN <<>>
    ELSE <<DocEntry(Head(ds))>> \o DocSectionEntries(Head(ds)) \o expandEntries(Tail(ds))

(* Arguments expandEntries is run on *)

SampleSections ==
    { Undefined,
      Arr(<<>>),
      Arr(<<[id |-> "qa", title |-> "Qa", depth |-> 2, content |-> "p"]>>),
      Arr(<<[id |-> "qa", title |-> "Qa", depth |-> 2, content |-> "p"],
            [id |-> "qa-1", title |-> "Qa", depth |-> 3, content |-> ""]>>) }

SampleDocs ==
    { [slug |-> sl, title |-> ti, summary |-> "", tags |-> <<>>, body |-> "p",
       questions |-> <<>>, sections |-> se]
      : sl \in {"a", "b"}, ti \in {"a", "B"}, se \in SampleSections }

DocArrays == UNION { [1..n -> SampleDocs] : n \in 0..MaxDocs }

NotReturned == [returned |-> FALSE, value |-> <<>>]

ExpandIdle ==
    /\ inDocs = <<>>
    /\ expanded = NotReturned

ExpandInit ==
    /\ inDocs \in DocArrays
    /\ expanded = NotReturned

ExpandEntries ==
    /\ ~expanded.returned
    /\ expanded' = [returned |-> TRUE, value |-> expandEntries(inDocs)]
    /\ UNCHANGED <<inDocs, docVars, buildVars, uiVars, apiVars, siteVars>>

ExpandNext == ExpandEntries

-----------------------------------------------------------------------------
(* Fuse.js, as far as the SearchBar relies on it: an entry is a result when
   the pattern equals one of its searched fields or, from minMatchCharLength
   characters on, occurs in one, letter case ignored. Approximate matches
   and the ranking by score are left out: results keep the index's order. *)

MinMatchCharLength == 2
SearchLimit == 30

FieldMatches(text, pattern) ==
    LET t == ToLowerCase(text)
        p == ToLowerCase(pattern)
    IN  \/ t = p
        \/ Len(p) >= MinMatchCharLength /\ Includes(t, p)

OptionalFieldMatches(value, pattern) ==
    value.t = "string" /\ FieldMatches(value.v, pattern)

\* the keys of fuseOptions
EntryMatches(e, pattern) ==
    \/ FieldMatches(e.title, pattern)
    \/ OptionalFieldMatches(e.sectionTitle, pattern)
    \/ FieldMatches(e.summary, pattern)
    \/ \E i \in 1..Len(e.tags) : FieldMatches(e.tags[i], pattern)
    \/ FieldMatches(e.body, pattern)
    \/ OptionalFieldMatches(e.sectionContent, pattern)
    \/ \E i \in 1..Len(e.questions) : FieldMatches(e.questions[i], pattern)

RECURSIVE MatchingEntries(_, _)
MatchingEntries(list, pattern) ==
    IF list = <<>> THEN <<>>
    ELSE (IF EntryMatches(Head(list), pattern) THEN <<Head(list)>> ELSE <<>>)
         \o MatchingEntries(Tail(list), pattern)

Take(seq, n) == SubSeq(seq, 1, IF Len(seq) < n THEN Len(seq) ELSE n)

\* fuse.search(pattern, { limit })
FuseSearch(list, pattern, limit) == Take(MatchingEntries(list, pattern), limit)

NullRef == [current |-> "null", list |-> <<>>]

\* new FuseModule(expanded, fuseOptions)
NewFuse(list) == [current |-> "Fuse", list |-> list]

-----------------------------------------------------------------------------
(* SearchBar *)

\* JavaScript truthiness of an optional string
Truthy(value) == value.t = "string" /\ value.v # ""

\* const href = `/docs/${item.slug}${item.sectionId ? `#${item.sectionId}` : ''}`
Href(item) ==
    "/docs/" \o item.slug \o (IF Truthy(item.sectionId) THEN "#" \o item.sectionId.v ELSE "")

\* key={`${item.slug}${item.sectionId ?? ''}`}
Key(item) ==
    item.slug \o (IF item.sectionId.t = "undefined" THEN "" ELSE item.sectionId.v)

\* the effect's cleanup forgetting window.clearTimeout
EffectCleanupKeepsTimer(ts) == ts

\* return () => window.clearTimeout(handle): the one timer the effect set is
\* the only one pending
EffectCleanup(ts) == <<>>

\* the effect's guard without the trim
SkipsSearchUntrimmed(fuse, q) == fuse.current = "null" \/ Len(q) = 0

\* if (!fuseRef.current || query.trim().length === 0)
SkipsSearch(fuse, q) == fuse.current = "null" \/ Len(Trim(q)) = 0

\* the effect as it would be if its early return left the results alone
QueryEffectKeepsResults(fuse, q, res, load, ts) ==
    IF SkipsSearch(fuse, q)
    THEN [results |-> res, loading |-> load, timers |-> ts]
    ELSE [results |-> res, loading |-> TRUE, timers |-> Append(ts, q)]

\* the body of useEffect(..., [query]) for the query q
QueryEffect(fuse, q, res, load, ts) ==
    IF SkipsSearch(fuse, q)
    THEN [results |-> <<>>, loading |-> load, timers |-> ts]
    ELSE [results |-> res, loading |-> TRUE, timers |-> Append(ts, q)]

\* the click handler forgetting setQuery('')
OnClickKeepsQuery(q) == [query |-> q, results |-> <<>>]

\* onClick: setQuery(''); setResults([])
OnClick(q) == [query |-> "", results |-> <<>>]

\* loadIndex going on whatever the status
AfterFetchIgnoresStatus(ok) == "json"

\* if (!res.ok) return
AfterFetch(ok) == IF ok THEN "json" ELSE "returned"

(* What /search_index.json can hold: what the builder writes for these
   directories *)

File(name, title, order, children) ==
    [name |-> name, data |-> FrontMatter(title, order, Undefined, Undefined), children |-> children]

SampleDirs ==
    { <<File("a.md", Str("a"), Num(1), BodyQ)>>,
      <<File("a.md", Str("a"), Num(1), BodyP)>>,
      <<File("a.md", Str("a"), Num(1), BodyQ), File("a.mdx", Str("a"), Num(1), BodyQ)>>,
      <<File("a.md", Str("a"), Num(1), BodyQ), File("b.md", Str("B"), Num(2), BodyQ)>> }

ServedIndexes == { BuildOutput(d) : d \in SampleDirs }

Queries == {"", " ", "a", "Qa"}

\* the state of a SearchBar that is not there
BarGone ==
    /\ fuseRef' = NullRef
    /\ query' = ""
    /\ results' = <<>>
    /\ loading' = FALSE
    /\ fetchOutcome' = "pending"
    /\ loadPc' = "unmounted"
    /\ lastInputLoaded' = FALSE
    /\ burstCalls' = <<>>
    /\ cancelledPending' = (timers # <<>>)

\* mounting: the initial state, and the first effects (loadIndex starts its
\* fetch; the query effect finds no index and sets the empty results)
Mount ==
    /\ mounted' = TRUE
    /\ fuseRef' = NullRef
    /\ query' = ""
    /\ results' = <<>>
    /\ loading' = FALSE
    /\ timers' = timers
    /\ fetchOutcome' = "pending"
    /\ loadPc' = "fetch"
    /\ lastInputLoaded' = FALSE
    /\ burstCalls' = <<>>
    /\ cancelledPending' = FALSE

\* unmounting as it would be if the query effect returned no cleanup
UnmountKeepsTimer ==
    /\ mounted' = FALSE
    /\ timers' = timers
    /\ BarGone

\* unmounting runs the query effect's cleanup
Unmount ==
    /\ mounted' = FALSE
    /\ timers' = EffectCleanup(timers)
    /\ BarGone

UiIdle ==
    /\ hosted = FALSE
    /\ open = FALSE
    /\ mounted = FALSE
    /\ served = <<>>
    /\ fetchOutcome = "pending"
    /\ loadPc = "unmounted"
    /\ fuseRef = NullRef
    /\ query = ""
    /\ results = <<>>
    /\ loading = FALSE
    /\ timers = <<>>
    /\ searched = {}
    /\ burstCalls = <<>>
    /\ cancelledPending = FALSE
    /\ lastInputLoaded = FALSE
    /\ onResultSelectCalls = 0
    /\ lastEvent = "none"

UiInit ==
    /\ hosted \in BOOLEAN
    /\ open = FALSE
    /\ mounted = ~hosted
    /\ served \in ServedIndexes
    /\ fetchOutcome = "pending"
    /\ loadPc = IF hosted THEN "unmounted" ELSE "fetch"
    /\ fuseRef = NullRef
    /\ query = ""
    /\ results = <<>>
    /\ loading = FALSE
    /\ timers = <<>>
    /\ searched = {}
    /\ burstCalls = <<>>
    /\ cancelledPending = FALSE
    /\ lastInputLoaded = FALSE
    /\ onResultSelectCalls = 0
    /\ lastEvent = "none"

otherVars == <<docVars, buildVars, expandVars, apiVars, siteVars>>

(* SearchDialog *)

\* setOpen as it would be if the dialog kept one SearchBar and only hid it
SetOpenHides(next) ==
    /\ open' = next
    /\ IF ~mounted THEN Mount
       ELSE UNCHANGED <<mounted, loadVars, barVars, lastInputLoaded, burstCalls, cancelledPending>>

\* setOpen(next) and the render that follows: the SearchBar is mounted while open
SetOpen(next) ==
    /\ open' = next
    /\ IF next /\ ~open THEN Mount
       ELSE IF ~next /\ open THEN Unmount
       ELSE UNCHANGED <<mounted, loadVars, barVars, lastInputLoaded, burstCalls, cancelledPending>>

\* the search button: onClick={() => setOpen(true)}
OpenClick ==
    /\ hosted
    /\ SetOpen(TRUE)
    /\ lastEvent' = "open"
    /\ UNCHANGED <<hosted, served, searched, onResultSelectCalls, otherVars>>

\* onKeyDown with Ctrl/Cmd+K: setOpen((prev) => !prev)
CtrlK ==
    /\ hosted
    /\ SetOpen(~open)
    /\ lastEvent' = "ctrl-k"
    /\ UNCHANGED <<hosted, served, searched, onResultSelectCalls, otherVars>>

\* onKeyDown with Escape: setOpen(false)
Escape ==
    /\ hosted
    /\ SetOpen(FALSE)
    /\ lastEvent' = "escape"
    /\ UNCHANGED <<hosted, served, searched, onResultSelectCalls, otherVars>>

\* the Close button, rendered while open: onClick={() => setOpen(false)}
CloseClick ==
    /\ hosted
    /\ open
    /\ SetOpen(FALSE)
    /\ lastEvent' = "close"
    /\ UNCHANGED <<hosted, served, searched, onResultSelectCalls, otherVars>>

(* loadIndex *)

\* await fetch('/search_index.json') resolves, with res.ok or not
FetchResolves(ok) ==
    /\ mounted
    /\ loadPc = "fetch"
    /\ fetchOutcome' = IF ok THEN "ok" ELSE "notok"
    /\ loadPc' = AfterFetch(ok)
    /\ lastEvent' = "fetched"
    /\ UNCHANGED <<hosted, open, mounted, served, barVars, otherVars>>
    /\ UNCHANGED <<searched, burstCalls, cancelledPending, lastInputLoaded, onResultSelectCalls>>

\* a rejection inside loadIndex: .catch logs it
LoadCaught ==
    /\ loadPc' = "caught"
    /\ lastEvent' = "load-error"
    /\ UNCHANGED <<hosted, open, mounted, served, barVars, otherVars>>
    /\ UNCHANGED <<searched, burstCalls, cancelledPending, lastInputLoaded, onResultSelectCalls>>

\* fetch rejects (no network)
FetchRejects ==
    /\ mounted
    /\ loadPc = "fetch"
    /\ fetchOutcome' = "rejected"
    /\ LoadCaught

\* await res.json() resolves; expandEntries runs; the import of fuse.js starts
JsonResolves ==
    /\ mounted
    /\ loadPc = "json"
    /\ loadPc' = "import"
    /\ lastEvent' = "parsed"
    /\ UNCHANGED <<hosted, open, mounted, served, fetchOutcome, barVars, otherVars>>
    /\ UNCHANGED <<searched, burstCalls, cancelledPending, lastInputLoaded, onResultSelectCalls>>

\* res.json() rejects (the body is no JSON)
JsonRejects ==
    /\ mounted
    /\ loadPc = "json"
    /\ UNCHANGED fetchOutcome
    /\ LoadCaught

\* await import('fuse.js') resolves: fuseRef.current = new FuseModule(expanded, fuseOptions)
ImportResolves ==
    /\ mounted
    /\ loadPc = "import"
    /\ fuseRef' = NewFuse(expandEntries(AllFromJson(served)))
    /\ loadPc' = "done"
    /\ lastEvent' = "index-ready"
    /\ UNCHANGED <<hosted, open, mounted, served, fetchOutcome, otherVars>>
    /\ UNCHANGED <<query, results, loading, timers>>
    /\ UNCHANGED <<searched, burstCalls, cancelledPending, lastInputLoaded, onResultSelectCalls>>

\* the import rejects
ImportRejects ==
    /\ mounted
    /\ loadPc = "import"
    /\ UNCHANGED fetchOutcome
    /\ LoadCaught

(* the query *)

\* onChange: setQuery(event.target.value); the render runs the previous
\* effect's cleanup and then the effect
ChangeQuery(q) ==
    /\ mounted
    /\ q # query
    /\ Len(EffectCleanup(timers)) < MaxPending
    /\ LET eff == QueryEffect(fuseRef, q, results, loading, EffectCleanup(timers))
       IN  /\ query' = q
           /\ results' = eff.results
           /\ loading' = eff.loading
           /\ timers' = eff.timers
    /\ lastInputLoaded' = (fuseRef.current # "null")
    /\ burstCalls' = IF timers = <<>> THEN <<>> ELSE burstCalls
    /\ cancelledPending' = (timers # <<>>)
    /\ lastEvent' = "change"
    /\ UNCHANGED <<hosted, open, mounted, served, loadVars, fuseRef, otherVars>>
    /\ UNCHANGED <<searched, onResultSelectCalls>>

\* the timeout's callback, 120 ms after the effect that set it
TimerFires ==
    /\ timers # <<>>
    /\ timers' = Tail(timers)
    /\ IF mounted
       THEN /\ results' = IF fuseRef.current # "null"
                          THEN FuseSearch(fuseRef.list, Head(timers), SearchLimit)
                          ELSE <<>>
            /\ loading' = FALSE
            /\ searched' = IF fuseRef.current # "null" THEN searched \cup {Head(timers)} ELSE searched
            /\ burstCalls' = IF fuseRef.current # "null" THEN Append(burstCalls, Head(timers)) ELSE burstCalls
       ELSE /\ searched' = searched \cup {Head(timers)}
            /\ UNCHANGED <<results, loading, burstCalls>>
    /\ lastEvent' = "timer"
    /\ UNCHANGED <<hosted, open, mounted, served, loadVars, fuseRef, query, otherVars>>
    /\ UNCHANGED <<cancelledPending, lastInputLoaded, onResultSelectCalls>>

\* a click on the i-th result of the home page's SearchBar (no onResultSelect)
SelectResult(i) ==
    /\ mounted
    /\ ~hosted
    /\ i \in 1..Len(results)
    /\ LET set == OnClick(query)
           ts == IF set.query # query THEN EffectCleanup(timers) ELSE timers
           eff == QueryEffect(fuseRef, set.query, set.results, loading, ts)
       IN  /\ query' = set.query
           /\ results' = IF set.query # query THEN eff.results ELSE set.results
           /\ loading' = IF set.query # query THEN eff.loading ELSE loading
           /\ timers' = IF set.query # query THEN eff.timers ELSE timers
    /\ lastInputLoaded' = (fuseRef.current # "null")
    /\ burstCalls' = IF timers = <<>> THEN <<>> ELSE burstCalls
    /\ cancelledPending' = (timers # <<>>)
    /\ lastEvent' = "select"
    /\ UNCHANGED <<hosted, open, mounted, served, loadVars, fuseRef, otherVars>>
    /\ UNCHANGED <<searched, onResultSelectCalls>>

\* a click on the i-th result in the SearchDialog: onResultSelect closes the
\* dialog in the same batch, which unmounts the SearchBar
SelectResultInDialog(i) ==
    /\ mounted
    /\ hosted
    /\ i \in 1..Len(results)
    /\ onResultSelectCalls < MaxSelects
    /\ onResultSelectCalls' = onResultSelectCalls + 1
    /\ SetOpen(FALSE)
    /\ lastEvent' = "select"
    /\ UNCHANGED <<hosted, served, searched, otherVars>>

UiNext ==
    \/ OpenClick
    \/ CtrlK
    \/ Escape
    \/ CloseClick
    \/ \E ok \in BOOLEAN : FetchResolves(ok)
    \/ FetchRejects
    \/ JsonResolves
    \/ JsonRejects
    \/ ImportResolves
    \/ ImportRejects
    \/ \E q \in Queries : ChangeQuery(q)
    \/ TimerFires
    \/ \E i \in 1..SearchLimit : SelectResult(i)
    \/ \E i \in 1..SearchLimit : SelectResultInDialog(i)

-----------------------------------------------------------------------------
(* The revalidation webhook (app/api/revalidate/route.ts) *)

\* a === b on JavaScript values
StrictEquals(a, b) == a.t = b.t /\ a.v = b.v

\* what request.json() gives: a rejection (the body is not JSON), the value
\* null, or an object with its secret and slugs properties
\* the slugs property: absent, a value that is not an array (a string, whose
\* content plays no part), or an array of elements
SlugsAbsent == [t |-> "undefined", v |-> <<>>]
SlugsString == [t |-> "string", v |-> <<>>]
SlugsArray(a) == [t |-> "array", v |-> a]

InvalidJson == [t |-> "invalid", secret |-> Undefined, slugs |-> SlugsAbsent]
JsonNull == [t |-> "null", secret |-> Undefined, slugs |-> SlugsAbsent]
JsonObject(secret, slugs) == [t |-> "object", secret |-> secret, slugs |-> slugs]

\* (await request.json().catch(() => ({}))) as RevalidateBody
ParsedBody(raw) == IF raw.t = "invalid" THEN JsonObject(Undefined, SlugsAbsent) ELSE raw

\* body.secret and body.slugs throw a TypeError when body is null
PropertyReadThrows(body) == body.t = "null"

\* the secret as it would be with `body.secret ?? headerSecret`
EffectiveSecretBodyFirst(headerSecret, body) ==
    IF Nullish(body.secret) THEN headerSecret ELSE body.secret

\* const secret = headerSecret ?? body.secret
EffectiveSecret(headerSecret, body) ==
    IF Nullish(headerSecret) THEN body.secret ELSE headerSecret

\* !secret || secret !== process.env.REVALIDATE_SECRET
Rejects(secret, env) == ~Truthy(secret) \/ ~StrictEquals(secret, env)

\* slug.startsWith('/') ? slug : `/docs/${slug}`
PathOf(slug) == IF StartsWith(slug, "/") THEN slug ELSE "/docs/" \o slug

RECURSIVE MapPaths(_)
MapPaths(slugs) ==
    IF slugs = <<>> THEN <<>> ELSE <<PathOf(Head(slugs).v)>> \o MapPaths(Tail(slugs))

\* const slugs = Array.isArray(body.slugs) ? body.slugs : null;
\* slugs?.length ? slugs.map(...) : ['/']
PathsFor(body) ==
    IF body.slugs.t = "array" /\ Len(body.slugs.v) > 0
    THEN MapPaths(body.slugs.v)
    ELSE <<"/">>

\* slug.startsWith throws a TypeError on an element that is not a string
MapThrows(body) ==
    /\ body.slugs.t = "array"
    /\ \E i \in 1..Len(body.slugs.v) : body.slugs.v[i].t # "string"

(* Requests *)

EnvSecrets == {Undefined, Str(""), Str("s3")}
HeaderSecrets == {Null, Str(""), Str("s3"), Str("bad")}
BodySecrets == {Undefined, Str(""), Str("s3"), Str("bad")}
SlugValues == {Str("a"), Str("/b"), Null}
SlugArrays == UNION { [1..n -> SlugValues] : n \in 0..MaxSlugs }
BodySlugs == {SlugsAbsent, SlugsString} \cup { SlugsArray(a) : a \in SlugArrays }
Bodies ==
    {InvalidJson, JsonNull} \cup { JsonObject(sec, sl) : sec \in BodySecrets, sl \in BodySlugs }
Requests == { [header |-> h, body |-> b] : h \in HeaderSecrets, b \in Bodies }

NoResponse == [status |-> 0, success |-> FALSE, revalidated |-> <<>>]
Unauthorized == [status |-> 401, success |-> FALSE, revalidated |-> <<>>]
ServerError == [status |-> 500, success |-> FALSE, revalidated |-> <<>>]
Success(paths) == [status |-> 200, success |-> TRUE, revalidated |-> paths]

ApiIdle ==
    /\ envSecret = Undefined
    /\ request = [header |-> Null, body |-> InvalidJson]
    /\ apc = "idle"
    /\ pathsToRevalidate = <<>>
    /\ pendingPaths = <<>>
    /\ revalidatedPaths = <<>>
    /\ response = NoResponse

ApiInit ==
    /\ envSecret \in EnvSecrets
    /\ request \in Requests
    /\ apc = "received"
    /\ pathsToRevalidate = <<>>
    /\ pendingPaths = <<>>
    /\ revalidatedPaths = <<>>
    /\ response = NoResponse

\* the handler ends with `response`
Respond(r) ==
    /\ response' = r
    /\ apc' = "responded"
    /\ UNCHANGED <<envSecret, request, pathsToRevalidate, pendingPaths, revalidatedPaths>>
    /\ UNCHANGED <<docVars, buildVars, expandVars, uiVars, siteVars>>

\* lines 10-12 when body is null and there is no header: body.secret throws,
\* the handler rejects and the framework answers 500
SecretReadThrows ==
    /\ apc = "received"
    /\ Nullish(request.header)
    /\ PropertyReadThrows(ParsedBody(request.body))
    /\ Respond(ServerError)

\* lines 10-16: the secret is missing or wrong
RejectSecret ==
    /\ apc = "received"
    /\ ~(Nullish(request.header) /\ PropertyReadThrows(ParsedBody(request.body)))
    /\ Rejects(EffectiveSecret(request.header, ParsedBody(request.body)), envSecret)
    /\ Respond(Unauthorized)

\* lines 10-16: the secret is right
AcceptSecret ==
    /\ apc = "received"
    /\ ~(Nullish(request.header) /\ PropertyReadThrows(ParsedBody(request.body)))
    /\ ~Rejects(EffectiveSecret(request.header, ParsedBody(request.body)), envSecret)
    /\ apc' = "authorized"
    /\ UNCHANGED <<envSecret, request, pathsToRevalidate, pendingPaths, revalidatedPaths, response>>
    /\ UNCHANGED <<docVars, buildVars, expandVars, uiVars, siteVars>>

\* lines 18-21 when body.slugs or slug.startsWith throws: the handler rejects
\* and the framework answers 500
ComputePathsThrows ==
    /\ apc = "authorized"
    /\ \/ PropertyReadThrows(ParsedBody(request.body))
       \/ MapThrows(ParsedBody(request.body))
    /\ Respond(ServerError)

\* lines 18-21
ComputePaths ==
    /\ apc = "authorized"
    /\ ~PropertyReadThrows(ParsedBody(request.body))
    /\ ~MapThrows(ParsedBody(request.body))
    /\ pathsToRevalidate' = PathsFor(ParsedBody(request.body))
    /\ pendingPaths' = PathsFor(ParsedBody(request.body))
    /\ apc' = "revalidating"
    /\ UNCHANGED <<envSecret, request, revalidatedPaths, response>>
    /\ UNCHANGED <<docVars, buildVars, expandVars, uiVars, siteVars>>

\* one iteration of pathsToRevalidate.forEach: revalidatePath(path)
RevalidatePath ==
    /\ apc = "revalidating"
    /\ pendingPaths # <<>>
    /\ revalidatedPaths' = Append(revalidatedPaths, Head(pendingPaths))
    /\ pendingPaths' = Tail(pendingPaths)
    /\ UNCHANGED <<envSecret, request, apc, pathsToRevalidate, response>>
    /\ UNCHANGED <<docVars, buildVars, expandVars, uiVars, siteVars>>

\* revalidatePath throws: the catch block answers 500
RevalidatePathThrows ==
    /\ apc = "revalidating"
    /\ pendingPaths # <<>>
    /\ Respond(ServerError)

\* return NextResponse.json({ success: true, revalidated: pathsToRevalidate })
RespondSuccess ==
    /\ apc = "revalidating"
    /\ pendingPaths = <<>>
    /\ Respond(Success(pathsToRevalidate))

ApiNext ==
    \/ SecretReadThrows
    \/ RejectSecret
    \/ AcceptSecret
    \/ ComputePathsThrows
    \/ ComputePaths
    \/ RevalidatePath
    \/ RevalidatePathThrows
    \/ RespondSuccess

-----------------------------------------------------------------------------
(* The shared highlighter (lib/shiki) *)

NoValue == 0

\* getSingletonHighlighter as it would be without the __shikiPromise check:
\* every call that finds no highlighter calls createHighlighter
getSingletonHighlighterNoPromise(highlighter, promise, made) ==
    IF highlighter # NoValue
    THEN [promise |-> promise, made |-> made, returns |-> "value", awaits |-> highlighter]
    ELSE [promise |-> Len(made) + 1,
          made |-> Append(made, "pending"),
          returns |-> "promise",
          awaits |-> Len(made) + 1]

\* the synchronous body of getSingletonHighlighter(): the new __shikiPromise,
\* the createHighlighter calls made so far, and what the call returns (the
\* highlighter itself, or the promise of a createHighlighter call)
getSingletonHighlighter(highlighter, promise, made) ==
    IF highlighter # NoValue
    THEN [promise |-> promise, made |-> made, returns |-> "value", awaits |-> highlighter]
    ELSE IF promise = NoValue
    THEN [promise |-> Len(made) + 1,
          made |-> Append(made, "pending"),
          returns |-> "promise",
          awaits |-> Len(made) + 1]
    ELSE [promise |-> promise, made |-> made, returns |-> "promise", awaits |-> promise]

Callers == 1..MaxCallers

NotCalled == [pc |-> "idle", returns |-> "none", awaits |-> NoValue, got |-> NoValue]

ShikiIdle ==
    /\ shikiHighlighter = NoValue
    /\ shikiPromise = NoValue
    /\ creations = <<>>
    /\ callers = [c \in Callers |-> NotCalled]

\* a fresh process: nothing on globalThis, no call made
ShikiInit == ShikiIdle

\* highlightCode(code, lang) up to its await: const highlighter = await getSingletonHighlighter()
HighlightCode(c) ==
    /\ callers[c].pc = "idle"
    /\ LET call == getSingletonHighlighter(shikiHighlighter, shikiPromise, creations)
       IN  /\ shikiPromise' = call.promise
           /\ creations' = call.made
           /\ callers' = [callers EXCEPT ![c] =
                  [pc |-> "awaiting", returns |-> call.returns, awaits |-> call.awaits, got |-> NoValue]]
    /\ UNCHANGED shikiHighlighter
    /\ UNCHANGED <<docVars, buildVars, expandVars, uiVars, apiVars, pageVars, metaVars>>

\* a createHighlighter call fulfils: the .then callback stores the instance
CreateResolves(k) ==
    /\ k \in 1..Len(creations)
    /\ creations[k] = "pending"
    /\ creations' = [creations EXCEPT ![k] = "fulfilled"]
    /\ shikiHighlighter' = k
    /\ UNCHANGED <<shikiPromise, callers>>
    /\ UNCHANGED <<docVars, buildVars, expandVars, uiVars, apiVars, pageVars, metaVars>>

\* a createHighlighter call rejects: __shikiPromise stays, rejected
CreateRejects(k) ==
    /\ k \in 1..Len(creations)
    /\ creations[k] = "pending"
    /\ creations' = [creations EXCEPT ![k] = "rejected"]
    /\ UNCHANGED <<shikiHighlighter, shikiPromise, callers>>
    /\ UNCHANGED <<docVars, buildVars, expandVars, uiVars, apiVars, pageVars, metaVars>>

\* the await of highlightCode resumes with the highlighter
Resume(c) ==
    /\ callers[c].pc = "awaiting"
    /\ \/ callers[c].returns = "value"
       \/ callers[c].returns = "promise" /\ creations[callers[c].awaits] = "fulfilled"
    /\ callers' = [callers EXCEPT ![c].pc = "highlighting", ![c].got = callers[c].awaits]
    /\ UNCHANGED <<shikiHighlighter, shikiPromise, creations>>
    /\ UNCHANGED <<docVars, buildVars, expandVars, uiVars, apiVars, pageVars, metaVars>>

\* the await of highlightCode throws: the promise was rejected
ResumeRejected(c) ==
    /\ callers[c].pc = "awaiting"
    /\ callers[c].returns = "promise"
    /\ creations[callers[c].awaits] = "rejected"
    /\ callers' = [callers EXCEPT ![c].pc = "failed"]
    /\ UNCHANGED <<shikiHighlighter, shikiPromise, creations>>
    /\ UNCHANGED <<docVars, buildVars, expandVars, uiVars, apiVars, pageVars, metaVars>>

ShikiNext ==
    \/ \E c \in Callers : HighlightCode(c)
    \/ \E k \in Callers : CreateResolves(k)
    \/ \E k \in Callers : CreateRejects(k)
    \/ \E c \in Callers : Resume(c)
    \/ \E c \in Callers : ResumeRejected(c)

-----------------------------------------------------------------------------
(* A document page: getDocBySlug under DocPage and generateMetadata *)

\* the extensions as they would be if .mdx were probed first
SUPPORTED_EXTENSIONS_MdxFirst == <<".mdx", ".md">>

\* const SUPPORTED_EXTENSIONS = ['.md', '.mdx']
SUPPORTED_EXTENSIONS == <<".md", ".mdx">>

ContentFileNames == {"a.md", "a.mdx", "b.md", "b.mdx"}

PageSlugs == {"a", "b", "c"}

PageCallers == {"DocPage", "generateMetadata"}

\* the title in the front matter of a content file: each file's own
FrontMatterTitle(file) == "T " \o file

NoOutcome == [kind |-> "none", file |-> "", title |-> "", error |-> ""]

PageIdle ==
    /\ contentDir = {}
    /\ pageCall = [caller |-> "DocPage", slug |-> ""]
    /\ gpc = "idle"
    /\ filename = ""
    /\ extIndex = 0
    /\ resolvedFilename = ""
    /\ pageOutcome = NoOutcome

PageInit ==
    /\ contentDir \in SUBSET ContentFileNames
    /\ pageCall \in [caller : PageCallers, slug : PageSlugs]
    /\ gpc = "find"
    /\ filename = ""
    /\ extIndex = 1
    /\ resolvedFilename = ""
    /\ pageOutcome = NoOutcome

\* the catch blocks of the two callers
Caught(message) ==
    IF pageCall.caller = "DocPage"
    THEN [kind |-> "notFound", file |-> "", title |-> "", error |-> message]
    ELSE [kind |-> "metadata", file |-> "", title |-> "Topic not found", error |-> message]

\* what the two callers return for the document read from a file
Returned(file) ==
    IF pageCall.caller = "DocPage"
    THEN [kind |-> "page", file |-> file, title |-> FrontMatterTitle(file), error |-> ""]
    ELSE [kind |-> "metadata", file |-> file,
          title |-> FrontMatterTitle(file) \o " | Interview Knowledge Base", error |-> ""]

\* lines 76-83: find with an async predicate; the predicate's promise is truthy,
\* so the first candidate is taken whatever exists, and the value is never read
FindFilename ==
    /\ gpc = "find"
    /\ filename' = pageCall.slug \o SUPPORTED_EXTENSIONS[1]
    /\ gpc' = "probe"
    /\ UNCHANGED <<contentDir, pageCall, extIndex, resolvedFilename, pageOutcome>>
    /\ UNCHANGED <<docVars, buildVars, expandVars, uiVars, apiVars, shikiVars, metaVars>>

LoopOver == extIndex > Len(SUPPORTED_EXTENSIONS) \/ resolvedFilename # ""

\* one iteration of the probe loop whose fs.access resolves: take it and break
ProbeFound ==
    /\ gpc = "probe"
    /\ ~LoopOver
    /\ LET candidate == pageCall.slug \o SUPPORTED_EXTENSIONS[extIndex]
       IN  /\ candidate \in contentDir
           /\ resolvedFilename' = candidate
    /\ UNCHANGED <<contentDir, pageCall, gpc, filename, extIndex, pageOutcome>>
    /\ UNCHANGED <<docVars, buildVars, expandVars, uiVars, apiVars, shikiVars, metaVars>>

\* one iteration whose fs.access rejects: continue searching
ProbeMissing ==
    /\ gpc = "probe"
    /\ ~LoopOver
    /\ pageCall.slug \o SUPPORTED_EXTENSIONS[extIndex] \notin contentDir
    /\ extIndex' = extIndex + 1
    /\ UNCHANGED <<contentDir, pageCall, gpc, filename, resolvedFilename, pageOutcome>>
    /\ UNCHANGED <<docVars, buildVars, expandVars, uiVars, apiVars, shikiVars, metaVars>>

\* if (!resolvedFilename) throw new Error(`Document not found for slug ${slug}`)
ThrowNotFound ==
    /\ gpc = "probe"
    /\ LoopOver
    /\ resolvedFilename = ""
    /\ pageOutcome' = Caught("Document not found for slug " \o pageCall.slug)
    /\ gpc' = "done"
    /\ UNCHANGED <<contentDir, pageCall, filename, extIndex, resolvedFilename>>
    /\ UNCHANGED <<docVars, buildVars, expandVars, uiVars, apiVars, shikiVars, metaVars>>

\* readFile, extractHeadings and compileMDX succeed and the caller returns
ReadAndCompile ==
    /\ gpc = "probe"
    /\ LoopOver
    /\ resolvedFilename # ""
    /\ pageOutcome' = Returned(resolvedFilename)
    /\ gpc' = "done"
    /\ UNCHANGED <<contentDir, pageCall, filename, extIndex, resolvedFilename>>
    /\ UNCHANGED <<docVars, buildVars, expandVars, uiVars, apiVars, shikiVars, metaVars>>

\* readFile rejects or compileMDX throws: the same catch blocks
ReadOrCompileFails ==
    /\ gpc = "probe"
    /\ LoopOver
    /\ resolvedFilename # ""
    /\ pageOutcome' = Caught("cannot read or compile " \o resolvedFilename)
    /\ gpc' = "done"
    /\ UNCHANGED <<contentDir, pageCall, filename, extIndex, resolvedFilename>>
    /\ UNCHANGED <<docVars, buildVars, expandVars, uiVars, apiVars, shikiVars, metaVars>>

PageNext ==
    \/ FindFilename
    \/ ProbeFound
    \/ ProbeMissing
    \/ ThrowNotFound
    \/ ReadAndCompile
    \/ ReadOrCompileFails

-----------------------------------------------------------------------------
(* getAllDocsMeta (lib/content) *)

\* slugFromFilename as it would be if it knew the extension .md only
slugFromFilenameMdOnly(name) ==
    IF EndsWith(name, ".md") THEN SubSeq(name, 1, Len(name) - 3) ELSE name

\* slugFromFilename(filename): the first extension the name ends with is cut
slugFromFilename(name) ==
    IF EndsWith(name, SUPPORTED_EXTENSIONS[1])
    THEN SubSeq(name, 1, Len(name) - Len(SUPPORTED_EXTENSIONS[1]))
    ELSE IF EndsWith(name, SUPPORTED_EXTENSIONS[2])
    THEN SubSeq(name, 1, Len(name) - Len(SUPPORTED_EXTENSIONS[2]))
    ELSE name

\* entries.filter((entry) => SUPPORTED_EXTENSIONS.some((ext) => entry.endsWith(ext)))
RECURSIVE FilterContentFiles(_)
FilterContentFiles(entries) ==
    IF entries = <<>> THEN <<>>
    ELSE (IF \E i \in 1..Len(SUPPORTED_EXTENSIONS) :
                 EndsWith(Head(entries).name, SUPPORTED_EXTENSIONS[i])
          THEN <<Head(entries)>> ELSE <<>>)
         \o FilterContentFiles(Tail(entries))

\* !frontmatter.title || typeof frontmatter.title !== 'string'
TitleMissing(data) == data.title.t # "string" \/ data.title.v = ""

\* typeof frontmatter.order !== 'number'
OrderMissing(data) == data.order.t # "number"

\* the meta pushed for one file
MetaRecord(file) ==
    [title |-> file.data.title.v,
     order |-> file.data.order.v,
     summary |-> IF Nullish(file.data.summary) THEN "" ELSE file.data.summary.v,
     tags |-> IF file.data.tags.t = "array" THEN file.data.tags.v ELSE <<>>,
     slug |-> slugFromFilename(file.name)]

\* (a, b) => a.order - b.order || a.title.localeCompare(b.title), line 72
CompareMetas(a, b) ==
    IF a.order - b.order # 0 THEN a.order - b.order ELSE LocaleCompare(a.title, b.title)

RECURSIVE InsertMeta(_, _)
InsertMeta(sorted, m) ==
    IF sorted = <<>> THEN <<m>>
    ELSE IF CompareMetas(m, Head(sorted)) < 0 THEN <<m>> \o sorted
    ELSE <<Head(sorted)>> \o InsertMeta(Tail(sorted), m)

RECURSIVE SortMetasFrom(_, _)
SortMetasFrom(sorted, rest) ==
    IF rest = <<>> THEN sorted
    ELSE SortMetasFrom(InsertMeta(sorted, Head(rest)), Tail(rest))

\* metas.sort(...)
SortMetas(ms) == SortMetasFrom(<<>>, ms)

MetaIdle ==
    /\ listing = <<>>
    /\ mpc = "idle"
    /\ filenames = <<>>
    /\ metas = <<>>
    /\ metaError = ""

MetaInit ==
    /\ listing \in Directories
    /\ mpc = "readdir"
    /\ filenames = <<>>
    /\ metas = <<>>
    /\ metaError = ""

\* const filenames = await readContentFiles()
ReadContentFiles ==
    /\ mpc = "readdir"
    /\ filenames' = FilterContentFiles(listing)
    /\ mpc' = "loop"
    /\ UNCHANGED <<listing, metas, metaError>>
    /\ UNCHANGED <<docVars, buildVars, expandVars, uiVars, apiVars, shikiVars, pageVars>>

\* one iteration of the loop that throws on the title
MetaThrowsTitle ==
    /\ mpc = "loop"
    /\ filenames # <<>>
    /\ TitleMissing(Head(filenames).data)
    /\ metaError' = "Missing required frontmatter \"title\" in " \o Head(filenames).name
    /\ mpc' = "failed"
    /\ UNCHANGED <<listing, filenames, metas>>
    /\ UNCHANGED <<docVars, buildVars, expandVars, uiVars, apiVars, shikiVars, pageVars>>

\* one iteration of the loop that throws on the order
MetaThrowsOrder ==
    /\ mpc = "loop"
    /\ filenames # <<>>
    /\ ~TitleMissing(Head(filenames).data)
    /\ OrderMissing(Head(filenames).data)
    /\ metaError' = "Missing required numeric frontmatter \"order\" in " \o Head(filenames).name
    /\ mpc' = "failed"
    /\ UNCHANGED <<listing, filenames, metas>>
    /\ UNCHANGED <<docVars, buildVars, expandVars, uiVars, apiVars, shikiVars, pageVars>>

\* one iteration of the loop that pushes a meta
PushMeta ==
    /\ mpc = "loop"
    /\ filenames # <<>>
    /\ ~TitleMissing(Head(filenames).data)
    /\ ~OrderMissing(Head(filenames).data)
    /\ metas' = Append(metas, MetaRecord(Head(filenames)))
    /\ filenames' = Tail(filenames)
    /\ UNCHANGED <<listing, mpc, metaError>>
    /\ UNCHANGED <<docVars, buildVars, expandVars, uiVars, apiVars, shikiVars, pageVars>>

\* return metas.sort(...)
ReturnMetas ==
    /\ mpc = "loop"
    /\ filenames = <<>>
    /\ metas' = SortMetas(metas)
    /\ mpc' = "done"
    /\ UNCHANGED <<listing, filenames, metaError>>
    /\ UNCHANGED <<docVars, buildVars, expandVars, uiVars, apiVars, shikiVars, pageVars>>

MetaNext ==
    \/ ReadContentFiles
    \/ MetaThrowsTitle
    \/ MetaThrowsOrder
    \/ PushMeta
    \/ ReturnMetas

SiteIdle == ShikiIdle /\ PageIdle /\ MetaIdle

-----------------------------------------------------------------------------
(* Specifications *)

Init == UiInit /\ DocIdle /\ BuildIdle /\ ExpandIdle /\ ApiIdle /\ SiteIdle

Next == UiNext

Spec == Init /\ [][Next]_vars

InitBuild == BuildInit /\ DocIdle /\ ExpandIdle /\ UiIdle /\ ApiIdle /\ SiteIdle

SpecBuild == InitBuild /\ [][BuildNext]_vars

InitDoc == DocInit /\ BuildIdle /\ ExpandIdle /\ UiIdle /\ ApiIdle /\ SiteIdle

SpecDoc == InitDoc /\ [][DocNext]_vars

InitExpand == ExpandInit /\ DocIdle /\ BuildIdle /\ UiIdle /\ ApiIdle /\ SiteIdle

SpecExpand == InitExpand /\ [][ExpandNext]_vars

InitApi == ApiInit /\ DocIdle /\ BuildIdle /\ ExpandIdle /\ UiIdle /\ SiteIdle

SpecApi == InitApi /\ [][ApiNext]_vars

InitShiki ==
    ShikiInit /\ DocIdle /\ BuildIdle /\ ExpandIdle /\ UiIdle /\ ApiIdle /\ PageIdle /\ MetaIdle

SpecShiki == InitShiki /\ [][ShikiNext]_vars

\* a promise of loadIndex settles one way or the other
LoadSettles ==
    \/ \E ok \in BOOLEAN : FetchResolves(ok)
    \/ FetchRejects
    \/ JsonResolves
    \/ JsonRejects
    \/ ImportResolves
    \/ ImportRejects

\* the browser runs a due timeout and settles every pending promise; the
\* user owes no event
SpecLive == Init /\ [][Next]_vars /\ WF_vars(TimerFires) /\ WF_vars(LoadSettles)

InitPage ==
    PageInit /\ DocIdle /\ BuildIdle /\ ExpandIdle /\ UiIdle /\ ApiIdle /\ ShikiIdle /\ MetaIdle

SpecPage == InitPage /\ [][PageNext]_vars

InitMeta ==
    MetaInit /\ DocIdle /\ BuildIdle /\ ExpandIdle /\ UiIdle /\ ApiIdle /\ ShikiIdle /\ PageIdle

SpecMeta == InitMeta /\ [][MetaNext]_vars

-----------------------------------------------------------------------------
(* Claims *)

\* C1: once the index is loaded, a burst of query changes, each arriving while
\* the previous change's timer is still pending, that ends in a query that is
\* non-empty after trim and is followed by no further input, has caused exactly
\* one call of the index's search, made with the final query; while a timer is
\* still pending nothing has been searched in the burst.
C1_DebounceSearchesFinalQueryOnce ==
    /\ (mounted /\ timers = <<>> /\ lastInputLoaded /\ Len(Trim(query)) > 0)
           => burstCalls = <<query>>
    /\ (mounted /\ timers # <<>>) => burstCalls = <<>>

C1_Witness ==
    /\ mounted
    /\ timers = <<>>
    /\ lastInputLoaded
    /\ cancelledPending
    /\ Len(Trim(query)) > 0
    /\ burstCalls = <<query>>

\* C2: whenever the trimmed query is empty the result list is empty and no
\* timer is pending, and the index's search has never been called with a query
\* that is empty after trim.
C2_EmptyQueryNeverSearched ==
    /\ (mounted /\ Len(Trim(query)) = 0) => (results = <<>> /\ timers = <<>>)
    /\ \A q \in searched : Len(Trim(q)) > 0

C2_Witness ==
    /\ mounted
    /\ lastEvent = "change"
    /\ query = " "
    /\ cancelledPending
    /\ results = <<>>
    /\ timers = <<>>

\* C3: when the fetch of /search_index.json rejected or answered with a status
\* that is not ok, the index is unset, loadIndex is over, the result list is
\* empty and no search is pending, whatever is typed afterwards.
C3_FailedFetchLeavesNoIndex ==
    fetchOutcome \in {"notok", "rejected"} =>
        /\ fuseRef = NullRef
        /\ loadPc \in {"returned", "caught"}
        /\ results = <<>>
        /\ timers = <<>>
        /\ ~loading

C3_Witness ==
    /\ fetchOutcome = "notok"
    /\ lastEvent = "change"
    /\ query = "a"
    /\ results = <<>>

\* C4 (as claimed): in every state in which no debounce timer is pending the
\* 'searching' flag is false.
C4_IdleIsNotSearching == (mounted /\ timers = <<>>) => ~loading

\* the number of section entries a document contributes
SectionCount(doc) == IF doc.sections.t = "array" THEN Len(doc.sections.v) ELSE 0

RECURSIVE EntriesBefore(_, _)
EntriesBefore(ds, i) ==
    IF i <= 1 THEN 0 ELSE EntriesBefore(ds, i - 1) + 1 + SectionCount(ds[i - 1])

CopiesParent(e, doc) ==
    /\ e.slug = doc.slug
    /\ e.title = doc.title
    /\ e.summary = doc.summary
    /\ e.tags = doc.tags
    /\ e.body = doc.body
    /\ e.questions = doc.questions

\* C5: expandEntries returns sum over the documents of (1 + number of sections)
\* entries; document i's 'doc' entry stands right after the entries of the
\* documents before it, followed by its 'section' entries in the document's
\* section order, each entry copying the parent's fields.
C5_ExpandShape ==
    expanded.returned =>
        LET out == expanded.value
        IN  /\ Len(out) = EntriesBefore(inDocs, Len(inDocs) + 1)
            /\ \A i \in 1..Len(inDocs) :
                 LET base == EntriesBefore(inDocs, i)
                     doc == inDocs[i]
                 IN  /\ out[base + 1].type = "doc"
                     /\ out[base + 1].sectionId = Undefined
                     /\ CopiesParent(out[base + 1], doc)
                     /\ \A k \in 1..SectionCount(doc) :
                          /\ out[base + 1 + k].type = "section"
                          /\ out[base + 1 + k].sectionId = Str(doc.sections.v[k].id)
                          /\ out[base + 1 + k].sectionTitle = Str(doc.sections.v[k].title)
                          /\ out[base + 1 + k].sectionContent = Str(doc.sections.v[k].content)
                          /\ CopiesParent(out[base + 1 + k], doc)

C5_Witness ==
    /\ expanded.returned
    /\ Len(inDocs) = 2
    /\ inDocs[1].sections.t = "array"
    /\ Len(inDocs[1].sections.v) = 2
    /\ inDocs[2].sections = Undefined
    /\ Len(expanded.value) = 4

\* C6 (as claimed): every result's navigation target is /docs/<slug>, with
\* #<sectionId> appended exactly when the result is of type 'section'.
C6_FragmentIffSection ==
    \A i \in 1..Len(results) :
        Href(results[i]) =
            "/docs/" \o results[i].slug
            \o (IF results[i].type = "section" THEN "#" \o results[i].sectionId.v ELSE "")

\* C7 (as claimed): no two entries of the displayed result list have the same
\* navigation target, and their React keys are pairwise distinct.
C7_ResultsDistinct ==
    \A i, j \in 1..Len(results) :
        i # j => /\ Href(results[i]) # Href(results[j])
                 /\ Key(results[i]) # Key(results[j])

\* C8: a click on a result leaves the query empty, the result list empty and no
\* timer pending; in the SearchDialog it calls onResultSelect once and the
\* dialog is closed; nothing but a click calls onResultSelect.
C8_SelectClearsAndDismisses ==
    [][ /\ lastEvent' = "select" =>
            /\ query' = ""
            /\ results' = <<>>
            /\ timers' = <<>>
            /\ hosted => (onResultSelectCalls' = onResultSelectCalls + 1 /\ ~open' /\ ~mounted')
            /\ ~hosted => onResultSelectCalls' = onResultSelectCalls
        /\ lastEvent' # "select" => onResultSelectCalls' = onResultSelectCalls
      ]_vars

C8_Witness ==
    /\ lastEvent = "select"
    /\ hosted
    /\ ~open
    /\ cancelledPending
    /\ onResultSelectCalls = 1
    /\ query = ""
    /\ timers = <<>>

\* C9 (as claimed): no two records of the written array have the same slug.
C9_SlugsUnique ==
    bpc = "done" =>
        \A i, j \in 1..Len(outputFile.content) :
            i # j => outputFile.content[i].slug # outputFile.content[j].slug

\* C10 (as claimed): the section ids of a document are pairwise distinct, the
\* first occurrence of a heading text gets its plain slug and a repeated text
\* gets the plain slug with a numeric suffix.
C10_FirstOccurrenceGetsPlainSlug ==
    docPc = "sections" =>
        /\ \A i, j \in 1..Len(docSections) : i # j => docSections[i].id # docSections[j].id
        /\ \A i \in 1..Len(docSections) :
             LET plain == PlainSlug(docSections[i].title)
             IN  IF \A j \in 1..(i - 1) : docSections[j].title # docSections[i].title
                 THEN docSections[i].id = plain
                 ELSE \E k \in 1..Len(docSections) :
                          docSections[i].id = plain \o "-" \o NatToString(k)

\* C10 (amended): the section ids of a document are pairwise distinct; a heading
\* whose plain slug is not yet the id of an earlier section gets its plain
\* slug, and any other heading gets its plain slug with a numeric suffix.
C10_SectionIdsDistinct ==
    docPc = "sections" =>
        /\ \A i, j \in 1..Len(docSections) : i # j => docSections[i].id # docSections[j].id
        /\ \A i \in 1..Len(docSections) :
             LET plain == PlainSlug(docSections[i].title)
             IN  IF \A j \in 1..(i - 1) : docSections[j].id # plain
                 THEN docSections[i].id = plain
                 ELSE \E k \in 1..Len(docSections) :
                          docSections[i].id = plain \o "-" \o NatToString(k)

C10_Witness ==
    /\ docPc = "sections"
    /\ Len(docSections) = 2
    /\ docSections[1].title = "Q"
    /\ docSections[2].title = "Q"
    /\ docSections[1].id = "q"
    /\ docSections[2].id = "q-1"

\* a heading that the spec's data model makes a section of: depth 1 to 4 and
\* a text that is not empty once trimmed
IsSectionHeading(node) ==
    /\ node.type = "heading"
    /\ node.depth <= 4
    /\ Trim(MdToString(node)) # ""

SectionHeadingIndices == { i \in 1..Len(markdown) : IsSectionHeading(markdown[i]) }

\* the index in the document of the heading of the k-th section
HeadingIndexOf(k) ==
    CHOOSE i \in SectionHeadingIndices :
        Cardinality({ j \in SectionHeadingIndices : j < i }) = k - 1

\* C11 (as claimed): sections has one record for every heading of the document
\* (at any nesting) with depth <= 4 and a non-empty trimmed text.
C11_OneSectionPerHeading ==
    docPc = "sections" =>
        Len(docSections) = Len(SelectSeq(VisitHeadings(markdown), IsSectionHeading))

\* C11 (amended): sections has one record for every top-level heading with
\* depth <= 4 and a non-empty trimmed text, and lists them in document order
\* with their trimmed text and depth; empty and deeper headings give no record.
C11_OneSectionPerTopLevelHeading ==
    docPc = "sections" =>
        /\ Len(docSections) = Cardinality(SectionHeadingIndices)
        /\ \A k \in 1..Len(docSections) :
             /\ docSections[k].title = Trim(MdToString(markdown[HeadingIndexOf(k)]))
             /\ docSections[k].depth = markdown[HeadingIndexOf(k)].depth

C11_Witness ==
    /\ docPc = "sections"
    /\ markdown = <<Heading(2, <<>>), Heading(5, <<Text("Q")>>), Heading(1, <<Text("Q")>>)>>
    /\ Len(docSections) = 1
    /\ docSections[1].depth = 1

\* the index of the first node after the heading at h that is a heading of
\* depth <= that heading's depth, or one past the end of the document
SectionBoundary(h) ==
    LET stops == { i \in (h + 1)..Len(markdown) :
                     /\ markdown[i].type = "heading"
                     /\ markdown[i].depth <= markdown[h].depth }
    IN  IF stops = {} THEN Len(markdown) + 1
        ELSE CHOOSE i \in stops : \A j \in stops : i <= j

\* the trimmed texts of the nodes at the indices of `chosen`, in document order
RECURSIVE TextsAt(_)
TextsAt(chosen) ==
    IF chosen = {} THEN <<>>
    ELSE LET first == CHOOSE i \in chosen : \A j \in chosen : i <= j
         IN  <<Trim(MdToString(markdown[first]))>> \o TextsAt(chosen \ {first})

\* C12: the content of every section is the space-joined text of at most 3
\* paragraph nodes, taken in document order from between the section's
\* heading and the next heading of depth <= its depth (or the document's end).
C12_ContentWithinSection ==
    docPc = "sections" =>
        \A k \in 1..Len(docSections) :
            LET h == HeadingIndexOf(k)
                within == { i \in (h + 1)..(SectionBoundary(h) - 1) :
                              markdown[i].type = "paragraph" }
            IN  \E chosen \in SUBSET within :
                    /\ Cardinality(chosen) <= 3
                    /\ docSections[k].content = Join(TextsAt(chosen), " ")

C12_WitnessBoundary ==
    /\ docPc = "sections"
    /\ Len(markdown) = 5
    /\ markdown[1] = Heading(2, <<Text("Q")>>)
    /\ markdown[2] = Paragraph(<<Text("p")>>)
    /\ markdown[3] = Heading(2, <<Text("Q")>>)
    /\ \A i \in 4..5 : markdown[i] = Paragraph(<<Text("w\nx?")>>)
    /\ docSections[1].content = "p"
    /\ docSections[2].content = "w\nx? w\nx?"

\* a section whose heading is followed by more than 3 paragraphs keeps 3
C12_Witness ==
    /\ docPc = "sections"
    /\ Len(markdown) = 5
    /\ markdown[1] = Heading(2, <<Text("Q")>>)
    /\ \A i \in 2..5 : markdown[i] = Paragraph(<<Text("p")>>)
    /\ docSections[1].content = "p p p"

\* C13: the record built for a file has order 999 unless the front matter's
\* order is a number, the slug as title when the front matter has no title,
\* the empty summary when it has none, no tags unless the front matter's tags
\* are an array, and otherwise the front matter's own values.
C13_FrontMatterDefaults ==
    [][Len(docs') = Len(docs) + 1 =>
        LET data == Head(files).data
            record == docs'[Len(docs')]
        IN  /\ record.order = IF data.order.t = "number" THEN data.order.v ELSE 999
            /\ record.title = IF data.title.t \in {"undefined", "null"}
                              THEN record.slug ELSE data.title.v
            /\ record.summary = IF data.summary.t \in {"undefined", "null"}
                                THEN "" ELSE data.summary.v
            /\ record.tags = IF data.tags.t = "array" THEN data.tags.v ELSE <<>>]_vars

C13_Witness ==
    /\ bpc = "loop"
    /\ Len(docs) = 2
    /\ FilterSupported(dir)[1].data = FrontMatter(Undefined, Undefined, Undefined, Undefined)
    /\ FilterSupported(dir)[2].data = FrontMatter(Str("B"), Str("1"), Str("s?"), Arr(<<"t">>))
    /\ docs[1].order = 999 /\ docs[1].title = docs[1].slug
    /\ docs[1].summary = "" /\ docs[1].tags = <<>>
    /\ docs[2].order = 999 /\ docs[2].title = "B"
    /\ docs[2].summary = "s?" /\ docs[2].tags = <<"t">>

\* the characters of the model's titles in the order of their code units
CodeUnitOrder == " !,-.0123456789:;?" \o UpperChars \o "_" \o LowerChars

\* a <= b by code units, the comparison of the `<` operator on strings
RECURSIVE LexLessEq(_, _)
LexLessEq(a, b) ==
    IF a = "" THEN TRUE
    ELSE IF b = "" THEN FALSE
    ELSE IF Head(a) = Head(b) THEN LexLessEq(Tail(a), Tail(b))
    ELSE IndexOf(CodeUnitOrder, Head(a)) < IndexOf(CodeUnitOrder, Head(b))

\* C14: the written array is sorted ascending by order, and records of equal
\* order are arranged by the case-sensitive lexical order of their titles.
C14_SortedByOrderThenTitle ==
    bpc = "done" =>
        \A i \in 1..(Len(outputFile.content) - 1) :
            \/ outputFile.content[i].order < outputFile.content[i + 1].order
            \/ /\ outputFile.content[i].order = outputFile.content[i + 1].order
               /\ LexLessEq(outputFile.content[i].title, outputFile.content[i + 1].title)

\* C15: a failure of the directory read, of a file read or of a parse step
\* ends the build with the cause logged and a non-zero exit code and leaves
\* the output file as it was; the output file changes only in the write that
\* follows the processing of every content file.
C15_FailureWritesNothing ==
    /\ [](bpc = "failed" =>
            /\ exitCode > 0
            /\ logged # <<>>
            /\ logged[Len(logged)] = "Failed to build search index")
    /\ [][bpc # "failed"]_vars
    /\ [][(bpc = "readdir" \/ bpc = "loop") => outputFile' = outputFile]_vars
    /\ [][outputFile' # outputFile =>
            /\ bpc = "write"
            /\ files = <<>>
            /\ Len(docs) = Len(FilterSupported(dir))]_vars

C15_Witness ==
    /\ bpc = "failed"
    /\ Len(docs) = 1
    /\ Len(files) = 1
    /\ outputFile = StaleIndex
    /\ exitCode = 1

\* the place, among the headings of the rendered page, of the top-level
\* heading at index h of the document
PagePosition(h) == Len(VisitHeadings(SubSeq(markdown, 1, h)))

\* C16: every section id the builder emits is the id rehype-slug gives to the
\* same heading on the rendered page.
C16_SectionIdsMatchPage ==
    docPc = "rendered" =>
        \A k \in 1..Len(docSections) :
            docSections[k].id = pageIds[PagePosition(HeadingIndexOf(k))]

\* the places, among the headings of the rendered page, of the headings of
\* depth 2 or 3 with a non-empty text
TocPositions ==
    { j \in 1..Len(VisitHeadings(markdown)) :
        /\ VisitHeadings(markdown)[j].depth \in 2..3
        /\ Trim(MdToString(VisitHeadings(markdown)[j])) # "" }

\* C17: the table of contents has one entry for every heading of depth 2 or 3
\* with a non-empty text, and the entry's id is the id rehype-slug gives to
\* that heading on the rendered page.
C17_TocIdsMatchPage ==
    docPc = "rendered" =>
        /\ Len(tocHeadings) = Cardinality(TocPositions)
        /\ \A n \in 1..Len(tocHeadings) :
             \E j \in TocPositions :
                 /\ Cardinality({ i \in TocPositions : i < j }) = n - 1
                 /\ tocHeadings[n].id = pageIds[j]

\* the secret a request presents: its x-revalidate-secret header, or without
\* that header the secret field of its JSON body
PresentedSecret ==
    IF request.header.t # "null" THEN request.header
    ELSE IF request.body.t = "object" THEN request.body.secret
    ELSE Undefined

\* the presented secret is the non-empty value of REVALIDATE_SECRET
ValidSecret ==
    /\ envSecret.t = "string"
    /\ PresentedSecret.t = "string"
    /\ PresentedSecret.v # ""
    /\ PresentedSecret.v = envSecret.v

\* C18: a request without a valid secret never has a path revalidated and is
\* answered 401 with success false.
C18_InvalidSecretIs401 ==
    ~ValidSecret =>
        /\ revalidatedPaths = <<>>
        /\ apc = "responded" => (response.status = 401 /\ ~response.success)

\* the field carries the non-empty value of REVALIDATE_SECRET
CarriesSecret(field) ==
    /\ envSecret.t = "string"
    /\ envSecret.v # ""
    /\ field.t = "string"
    /\ field.v = envSecret.v

\* C19 (as claimed): a request with the secret in the header or in the body's
\* secret field is not answered 401, whatever the other of the two carries.
C19_EitherFieldAuthenticates ==
    (/\ apc = "responded"
     /\ \/ CarriesSecret(request.header)
        \/ request.body.t = "object" /\ CarriesSecret(request.body.secret))
        => response.status # 401

\* C19 (amended): a request with the secret in the header is not answered 401
\* whatever the body carries; one with the secret in the body's secret field
\* is not answered 401 when it has no x-revalidate-secret header, and is
\* answered 401 when it has that header with another value.
C19_HeaderElseBodyAuthenticates ==
    apc = "responded" =>
        /\ CarriesSecret(request.header) => response.status # 401
        /\ (request.body.t = "object" /\ CarriesSecret(request.body.secret)) =>
               IF request.header.t = "null" \/ CarriesSecret(request.header)
               THEN response.status # 401
               ELSE response.status = 401

C19_Witness ==
    /\ apc = "responded"
    /\ request.header = Str("s3")
    /\ request.body = JsonObject(Str("bad"), SlugsAbsent)
    /\ envSecret = Str("s3")
    /\ response = Success(<<"/">>)

\* the path the webhook documents for one slug
DocumentedPath(slug) ==
    IF slug.t = "string" /\ slug.v # "" /\ Head(slug.v) = "/" THEN slug.v
    ELSE "/docs/" \o slug.v

\* the paths the webhook documents for the request
DocumentedPaths ==
    IF request.body.t = "object" /\ request.body.slugs.t = "array"
       /\ request.body.slugs.v # <<>>
    THEN [i \in 1..Len(request.body.slugs.v) |-> DocumentedPath(request.body.slugs.v[i])]
    ELSE <<"/">>

\* C20: an authorized request has exactly '/' revalidated when its body has no
\* slugs and otherwise exactly the path of each slug, in request order; a
\* success response lists the paths revalidatePath was called on.
C20_RevalidatesDocumentedPaths ==
    (apc = "responded" /\ ValidSecret) =>
        /\ revalidatedPaths = DocumentedPaths
        /\ response.success => response.revalidated = revalidatedPaths

\* C21: under every interleaving of highlightCode calls createHighlighter is
\* called at most once, and every caller that gets a highlighter gets the
\* same instance.
C21_OneHighlighter ==
    /\ Len(creations) <= 1
    /\ \A c, d \in Callers :
         (callers[c].got # NoValue /\ callers[d].got # NoValue) =>
             callers[c].got = callers[d].got

\* two calls arrived while the initialization was in flight, a third after it
C21_Witness ==
    /\ Len(creations) = 1
    /\ \E c, d, e \in Callers :
         /\ c # d /\ d # e /\ c # e
         /\ callers[c].returns = "promise" /\ callers[c].got # NoValue
         /\ callers[d].returns = "promise" /\ callers[d].got # NoValue
         /\ callers[e].returns = "value" /\ callers[e].got # NoValue

\* one line for each paragraph among `nodes` (none for its descendants): its
\* text with every run of white space collapsed, when that is not empty
RECURSIVE TopLevelLines(_)
TopLevelLines(nodes) ==
    IF nodes = <<>> THEN <<>>
    ELSE LET line == Trim(CollapseSpaces(MdToString(Head(nodes))))
         IN  (IF Head(nodes).type = "paragraph" /\ line # "" THEN <<line>> ELSE <<>>)
             \o TopLevelLines(Tail(nodes))

\* C22: body is the newline-joined text of exactly the top-level paragraphs
\* with a non-empty text; nested paragraphs contribute no line.
C22_BodyOfTopLevelParagraphs ==
    docPc = "text" => docBody = Join(TopLevelLines(markdown), "\n")

\* C23: the questions of a record are, in document order, the trimmed texts
\* that end in "?" of the paragraphs of the scan that gives body; the summary
\* of the front matter is never one of them.
C23_QuestionsOfTheParagraphScan ==
    [][Len(docs') = Len(docs) + 1 =>
        LET file == Head(files)
            record == docs'[Len(docs')]
            scan == VisitParagraphs(file.children)
            texts == [i \in 1..Len(scan) |-> Trim(MdToString(scan[i]))]
            lines == [i \in 1..Len(scan) |-> Trim(CollapseSpaces(MdToString(scan[i])))]
        IN  /\ record.body = Join(SelectSeq(lines, LAMBDA line : line # ""), "\n")
            /\ record.questions = SelectSeq(texts, LAMBDA text : EndsWith(text, "?"))]_vars

C23_Witness ==
    /\ bpc = "loop"
    /\ Len(docs) >= 1
    /\ docs[Len(docs)].summary = "s?"
    /\ docs[Len(docs)].body = "w x?\np\nn?"
    /\ docs[Len(docs)].questions = <<"w\nx?", "n?">>

\* C24: what a build writes depends on the files of the directory only, not
\* on the order in which the listing returns them.
C24_ListingOrderIrrelevant ==
    bpc = "done" =>
        \A other \in Directories :
            {other[i] : i \in 1..Len(other)} = {dir[i] : i \in 1..Len(dir)}
                => BuildOutput(other) = outputFile.content

\* C25: getDocBySlug reads the slug's .md file when it exists, else its .mdx
\* file when that exists; when neither exists it throws 'Document not found',
\* which DocPage turns into not-found and generateMetadata into the title
\* 'Topic not found'.
C25_FirstExtensionWinsElseNotFound ==
    gpc = "done" =>
        LET md == pageCall.slug \o ".md"
            mdx == pageCall.slug \o ".mdx"
        IN  /\ md \in contentDir => resolvedFilename = md
            /\ (md \notin contentDir /\ mdx \in contentDir) => resolvedFilename = mdx
            /\ pageOutcome.kind = "page" =>
                   /\ pageOutcome.file = resolvedFilename
                   /\ pageOutcome.title = FrontMatterTitle(resolvedFilename)
            /\ pageOutcome.file # "" => pageOutcome.file = resolvedFilename
            /\ (md \notin contentDir /\ mdx \notin contentDir) =>
                   /\ resolvedFilename = ""
                   /\ pageOutcome.error = "Document not found for slug " \o pageCall.slug
                   /\ pageCall.caller = "DocPage" => pageOutcome.kind = "notFound"
                   /\ pageCall.caller = "generateMetadata" =>
                          /\ pageOutcome.kind = "metadata"
                          /\ pageOutcome.title = "Topic not found"

C25_Witness ==
    /\ gpc = "done"
    /\ {"a.md", "a.mdx"} \subseteq contentDir
    /\ pageCall = [caller |-> "DocPage", slug |-> "a"]
    /\ pageOutcome.kind = "page"
    /\ pageOutcome.file = "a.md"

\* the slugs of a sequence of records, in order
SlugsOf(records) == [i \in 1..Len(records) |-> records[i].slug]

\* every content file of the listing has a non-empty string title and a numeric order
TitledAndOrdered(directory) ==
    \A i \in 1..Len(directory) :
        IsSupported(directory[i].name) =>
            /\ directory[i].data.title.t = "string"
            /\ directory[i].data.title.v # ""
            /\ directory[i].data.order.t = "number"

\* C29: for a listing whose content files all have a non-empty string title
\* and a numeric order, getAllDocsMeta does not throw and returns the slugs of
\* the Index Builder's output for the same listing, in the same order.
C29_MetaSlugsEqualIndexSlugs ==
    TitledAndOrdered(listing) =>
        /\ mpc # "failed"
        /\ mpc = "done" => SlugsOf(metas) = SlugsOf(BuildOutput(listing))

C29_Witness ==
    /\ mpc = "done"
    /\ TitledAndOrdered(listing)
    /\ Len(listing) = 2
    /\ listing[1].name = "a.mdx"
    /\ SlugsOf(metas) = <<"b", "a">>

\* the index is loaded and the current query, entered before it was, is not blank
EnteredBeforeReady ==
    /\ mounted
    /\ loadPc = "done"
    /\ Len(Trim(query)) > 0
    /\ ~lastInputLoaded

\* the current query was searched in this mount and its results are shown
ExecutedAndShown ==
    /\ \E i \in 1..Len(burstCalls) : burstCalls[i] = query
    /\ results = FuseSearch(fuseRef.list, query, SearchLimit)

\* C26: a non-blank query entered while the index was loading is, once the
\* load has succeeded, eventually searched and its results shown, unless the
\* user types again or the SearchBar goes away first.
C26_EarlyQueryEventuallyExecuted ==
    [](EnteredBeforeReady => <>(ExecutedAndShown \/ lastInputLoaded \/ ~mounted))

\* C27: at most one debounce timer is pending, a pending timer is that of the
\* current query, no timer is pending while the SearchBar is not mounted, and
\* a step taken while it is not mounted makes no search call and changes
\* neither results nor loading.
C27_OneTimerOfCurrentQuery ==
    /\ [](Len(timers) <= 1)
    /\ [](timers # <<>> => (mounted /\ timers[1] = query))
    /\ [][~mounted' => timers' = <<>>]_vars
    /\ [][(~mounted /\ ~mounted') =>
             (searched' = searched /\ results' = results /\ loading' = loading)]_vars

C27_Witness ==
    /\ hosted
    /\ ~mounted
    /\ cancelledPending
    /\ lastEvent \in {"escape", "close", "ctrl-k"}
    /\ timers = <<>>
    /\ results = <<>>

\* C28: whenever no debounce timer is pending and the result list is not
\* empty, the list is the index's search result (limit 30) for the current
\* query; no list is shown by a SearchBar that is not mounted.
C28_IdleResultsAreOfCurrentQuery ==
    /\ (timers = <<>> /\ results # <<>>) =>
           /\ mounted
           /\ fuseRef.current = "Fuse"
           /\ results = FuseSearch(fuseRef.list, query, 30)
    /\ ~mounted => results = <<>>

C28_Witness ==
    /\ mounted
    /\ timers = <<>>
    /\ query = "Qa"
    /\ results # <<>>
    /\ "a" \in searched
    /\ results # FuseSearch(fuseRef.list, "a", 30)

\* C30: Escape, Close and a result selection leave the dialog closed, Ctrl/Cmd+K
\* flips the open state, and every step that opens the dialog mounts a
\* SearchBar with the empty query, no results, loading false, no timer and no
\* index yet, whatever the previous session left.
C30_DialogClosesFlipsAndOpensFresh ==
    /\ []((hosted /\ lastEvent \in {"escape", "close", "select"}) => (~open /\ ~mounted))
    /\ [][lastEvent' = "ctrl-k" => open' = ~open]_vars
    /\ [][(~open /\ open') =>
             /\ mounted'
             /\ query' = ""
             /\ results' = <<>>
             /\ loading' = FALSE
             /\ timers' = <<>>
             /\ fuseRef' = NullRef
             /\ loadPc' = "fetch"]_vars
    /\ [](hosted => (mounted <=> open))

C30_Witness ==
    /\ hosted
    /\ open
    /\ lastEvent = "ctrl-k"
    /\ onResultSelectCalls >= 1
    /\ cancelledPending = FALSE
    /\ searched # {}
    /\ query = ""
    /\ results = <<>>
    /\ fuseRef = NullRef

=========================================================================
